---- MODULE Spec2Model ----
(***************************************************************************)
(* goblog: the commit-driven synchronisation engine.                       *)
(*                                                                         *)
(* The module models                                                       *)
(*   - the path classifier (isPostFile, isImageFile, extractPostID),       *)
(*   - the commit change analyzer (handleCommitFile, analyzeCommitFiles),  *)
(*   - the post store (SavePost, Publish, Unpublish, GetPost),             *)
(*   - the push handler and its workers (HandlePushEvent,                  *)
(*     processPostFile) and the catch-up branch pass (processBranch).      *)
(*                                                                         *)
(* Three specifications share the variables:                               *)
(*   SpecAnalyzer  the analyzer folding a batch of commits,                *)
(*   SpecStore     arbitrary calls of the post store,                      *)
(*   Spec          push events, catch-up passes and their workers.         *)
(***************************************************************************)
EXTENDS Integers, Sequences, FiniteSets, TLC

VARIABLES
    commits,      \* analyzer: the commit list handled so far, in list order
    order,        \* analyzer: how the list order relates to history
    analysis,     \* analyzer: posts, images, postsToRemove, imagesToRemove
    postRows,     \* store: the posts table, id -> row
    htmlFiles,    \* store: files under postDir, html_path -> content
    imageRows,    \* store: the images table, path -> row
    imageFiles,   \* store: files under imageDir, file name -> content
    clock,        \* time.Now()
    workers,      \* engine: the units of work dispatched and not yet finished
    pushes,       \* engine: number of push events handled
    syncs,        \* engine: number of catch-up branch passes started
    finished,     \* engine: the unit of work, or the store call, that ended in the last step
    scope,        \* engine: the paths the commits of the source repository touch
    txn,          \* transactions: the calls of RunInTransaction in progress
    lifecycle,    \* service: s.ctx and the call of Close
    catchUp,      \* service: the call of SyncRepositoryChanges
    response      \* webhook: what HandleGitWebhook wrote for the last delivery

vars == <<commits, order, analysis, postRows, htmlFiles, imageRows,
          imageFiles, clock, workers, pushes, syncs,
          finished, scope, txn, lifecycle, catchUp, response>>

analyzerVars == <<commits, order, analysis>>
storeVars == <<postRows, htmlFiles, imageRows, imageFiles, clock>>
engineVars == <<workers, pushes, syncs, finished, scope>>
txVars == <<txn>>
callVars == <<lifecycle, catchUp, response>>

(***************************************************************************)
(* Bounds.                                                                 *)
(***************************************************************************)
MaxCommits == 2
MaxChanges == 2
MaxClock == 2
MaxPushes == 2
MaxSyncs == 1
MaxWorkers == 2
MaxDepth == 2
MaxTxCalls == 3
MaxWrites == 2
MaxDigits == 2
MaxText == 2

(***************************************************************************)
(* Paths are sequences of characters, so that the classifier is computed   *)
(* the way the regular expressions compute it.                             *)
(***************************************************************************)
PostA == <<"p","o","s","t","s","/","0","0","1","-","a",".","m","d">>
PostB == <<"p","o","s","t","s","/","0","0","2","-","b",".","m","d">>
ImgX == <<"i","m","a","g","e","s","/","x",".","p","n","g">>
ImgY == <<"i","m","a","g","e","s","/","y",".","j","p","e","g">>
\* an image of a subdirectory with the file name of ImgX, and a second file
\* of the post 001
ImgSubX == <<"i","m","a","g","e","s","/","d","/","x",".","p","n","g">>
PostA2 == <<"p","o","s","t","s","/","0","0","1","-","c",".","m","d">>
OtherPath == <<"p","o","s","t","s","/","a",".","m","d">>
NoPath == << >>

Digits == {"0","1","2","3","4","5","6","7","8","9"}

HasPrefix(s, pre) == Len(s) >= Len(pre) /\ SubSeq(s, 1, Len(pre)) = pre

HasSuffix(s, suf) ==
    Len(s) >= Len(suf) /\ SubSeq(s, Len(s) - Len(suf) + 1, Len(s)) = suf

\* first index at or after i that does not hold a digit
RECURSIVE DigitRunEnd(_, _)
DigitRunEnd(s, i) ==
    IF i <= Len(s) /\ s[i] \in Digits THEN DigitRunEnd(s, i + 1) ELSE i

PostsDir == <<"p","o","s","t","s","/">>
ImagesDir == <<"i","m","a","g","e","s","/">>
MdExt == <<".","m","d">>

ImageExts ==
    { <<".","j","p","g">>, <<".","j","p","e","g">>, <<".","p","n","g">>,
      <<".","g","i","f">>, <<".","s","v","g">>, <<".","w","e","b","p">>,
      <<".","a","v","i","f">> }

\* a slip: the dot of the expression matches a line break as well
postPathRegex_DotMatchesNewline(path) ==
    /\ HasPrefix(path, PostsDir)
    /\ LET e == DigitRunEnd(path, Len(PostsDir) + 1)
       IN  /\ e > Len(PostsDir) + 1
           /\ e <= Len(path)
           /\ path[e] = "-"
           /\ Len(path) >= e + Len(MdExt)
           /\ HasSuffix(path, MdExt)

\* ^posts/(\d+)-.*\.md$
postPathRegex(path) ==
    /\ HasPrefix(path, PostsDir)
    /\ LET e == DigitRunEnd(path, Len(PostsDir) + 1)
       IN  /\ e > Len(PostsDir) + 1
           /\ e <= Len(path)
           /\ path[e] = "-"
           /\ Len(path) >= e + Len(MdExt)
           /\ HasSuffix(path, MdExt)
           /\ \A k \in (e + 1)..(Len(path) - Len(MdExt)) : path[k] # "\n"

\* ^images/.*\.(jpg|jpeg|png|gif|svg|webp|avif)$
imagePathRegex(path) ==
    /\ HasPrefix(path, ImagesDir)
    /\ \E ext \in ImageExts :
          /\ Len(path) >= Len(ImagesDir) + Len(ext)
          /\ HasSuffix(path, ext)
          /\ \A k \in (Len(ImagesDir) + 1)..(Len(path) - Len(ext)) :
                path[k] # "\n"

isPostFile(path) == postPathRegex(path)

isImageFile(path) == imagePathRegex(path)

extractPostID(path) ==
    IF postPathRegex(path)
    THEN SubSeq(path, Len(PostsDir) + 1,
                DigitRunEnd(path, Len(PostsDir) + 1) - 1)
    ELSE << >>

(***************************************************************************)
(* Commit change analyzer.                                                 *)
(*                                                                         *)
(* A commit is [sha, date, files]; a file of its changelist is             *)
(* [filename, status, previous_filename].  The four collections of the     *)
(* analysis are the record [posts, images, postsToRemove, imagesToRemove]; *)
(* the two maps are functions from paths to commits.                       *)
(***************************************************************************)
Paths == {PostA, PostB, ImgX, ImgY, OtherPath}

MapPut(m, k, v) == [x \in DOMAIN m \cup {k} |-> IF x = k THEN v ELSE m[x]]

MapDelete(m, k) == [x \in DOMAIN m \ {k} |-> m[x]]

EmptyMap == [x \in {} |-> 0]

EmptyAnalysis ==
    [posts |-> EmptyMap, images |-> EmptyMap,
     postsToRemove |-> {}, imagesToRemove |-> {}]

\* a slip: the whole removal set is reset when a post is added
HandleAddedPost_ResetsRemovals(path, fullCommit, st) ==
    IF isPostFile(path)
    THEN [st EXCEPT
            !.posts = IF path \in DOMAIN st.posts THEN @
                      ELSE MapPut(@, path, fullCommit),
            !.postsToRemove = {}]
    ELSE st

\* case "added", "modified"
HandleAddedPost(path, fullCommit, st) ==
    IF isPostFile(path)
    THEN [st EXCEPT
            !.posts = IF path \in DOMAIN st.posts THEN @
                      ELSE MapPut(@, path, fullCommit),
            !.postsToRemove = @ \ {path}]
    ELSE st

HandleAddedImage(path, fullCommit, st) ==
    IF isImageFile(path)
    THEN [st EXCEPT
            !.images = IF path \in DOMAIN st.images THEN @
                       ELSE MapPut(@, path, fullCommit),
            !.imagesToRemove = @ \ {path}]
    ELSE st

\* a slip: a removed post is marked for removal also when it was pending
HandleRemovedPost_AlwaysMarks(path, st) ==
    IF isPostFile(path)
    THEN [st EXCEPT
            !.postsToRemove = @ \cup {path},
            !.posts = MapDelete(@, path)]
    ELSE st

\* case "removed" (and the previous path of "renamed")
HandleRemovedPost(path, st) ==
    IF isPostFile(path)
    THEN [st EXCEPT
            !.postsToRemove = IF path \in DOMAIN st.posts THEN @
                              ELSE @ \cup {path},
            !.posts = MapDelete(@, path)]
    ELSE st

HandleRemovedImage(path, st) ==
    IF isImageFile(path)
    THEN [st EXCEPT
            !.imagesToRemove = IF path \in DOMAIN st.images THEN @
                               ELSE @ \cup {path},
            !.images = MapDelete(@, path)]
    ELSE st

\* a slip: the previous path of a renamed post is not cleared
HandleRenamedToPost_KeepsPrevious(path, previousPath, fullCommit, st) ==
    IF isPostFile(path)
    THEN [st EXCEPT
            !.posts = IF path \in DOMAIN st.posts THEN @
                      ELSE MapPut(@, path, fullCommit)]
    ELSE st

\* case "renamed", the current path of a post
HandleRenamedToPost(path, previousPath, fullCommit, st) ==
    IF isPostFile(path)
    THEN [st EXCEPT
            !.posts = IF path \in DOMAIN st.posts THEN @
                      ELSE MapPut(@, path, fullCommit),
            !.postsToRemove = @ \ {previousPath}]
    ELSE st

\* a slip: the image rename clears the previous path, as the post rename does
HandleRenamedToImage_ClearsPrevious(path, previousPath, fullCommit, st) ==
    IF isImageFile(path)
    THEN [st EXCEPT
            !.images = IF path \in DOMAIN st.images THEN @
                       ELSE MapPut(@, path, fullCommit),
            !.imagesToRemove = @ \ {previousPath}]
    ELSE st

\* case "renamed", the current path of an image
HandleRenamedToImage(path, previousPath, fullCommit, st) ==
    IF isImageFile(path)
    THEN [st EXCEPT
            !.images = IF path \in DOMAIN st.images THEN @
                       ELSE MapPut(@, path, fullCommit),
            !.imagesToRemove = @ \ {path}]
    ELSE st

handleCommitFile(path, status, previousPath, fullCommit, st) ==
    IF /\ ~isPostFile(path) /\ ~isPostFile(previousPath)
       /\ ~isImageFile(path) /\ ~isImageFile(previousPath)
    THEN st
    ELSE CASE status \in {"added", "modified"} ->
                HandleAddedImage(path, fullCommit,
                    HandleAddedPost(path, fullCommit, st))
           [] status = "removed" ->
                HandleRemovedImage(path, HandleRemovedPost(path, st))
           [] status = "renamed" ->
                HandleRenamedToImage(path, previousPath, fullCommit,
                    HandleRemovedImage(previousPath,
                        HandleRenamedToPost(path, previousPath, fullCommit,
                            HandleRemovedPost(previousPath, st))))
           [] OTHER -> st

\* the inner loop of analyzeCommitFiles: the files of one commit, from i on
RECURSIVE HandleFiles(_, _, _)
HandleFiles(fullCommit, i, st) ==
    IF i > Len(fullCommit.files) THEN st
    ELSE LET file == fullCommit.files[i]
         IN  HandleFiles(fullCommit, i + 1,
                 handleCommitFile(file.filename, file.status,
                                  file.previous_filename, fullCommit, st))

\* the outer loop of analyzeCommitFiles: the commits of the list, from i on
RECURSIVE AnalyzeFrom(_, _, _)
AnalyzeFrom(cs, i, st) ==
    IF i > Len(cs) THEN st
    ELSE AnalyzeFrom(cs, i + 1, HandleFiles(cs[i], 1, st))

analyzeCommitFiles(cs) == AnalyzeFrom(cs, 1, EmptyAnalysis)

(***************************************************************************)
(* The source repository: what a changelist can be.  A commit's files are  *)
(* a diff against its parent, so a path occurs once in a changelist, an    *)
(* added path was absent, a modified, removed or renamed one was present.  *)
(***************************************************************************)
Statuses == {"added", "modified", "removed", "renamed"}

\* the file changes over the paths P
FileChanges(P) ==
    { [filename |-> p, status |-> s, previous_filename |-> NoPath] :
         p \in P, s \in {"added", "modified", "removed"} }
    \cup
    { [filename |-> pq[2], status |-> "renamed", previous_filename |-> pq[1]] :
         pq \in {x \in P \X P : x[1] # x[2]} }

Touched(file) ==
    {file.filename} \cup
    (IF file.status = "renamed" THEN {file.previous_filename} ELSE {})

CommitTouched(c) == UNION { Touched(c.files[i]) : i \in 1..Len(c.files) }

\* the changelists of at most maxLen files over the paths P
FileLists(P, maxLen) ==
    { fs \in UNION { [1..n -> FileChanges(P)] : n \in 1..maxLen } :
         \A i, j \in 1..Len(fs) : i < j => Touched(fs[i]) \cap Touched(fs[j]) = {} }

RECURSIVE TotalChanges(_)
TotalChanges(cs) ==
    IF cs = << >> THEN 0 ELSE Len(Head(cs).files) + TotalChanges(Tail(cs))

\* the files present after commit c, given the files present at its parent
Applicable(present, c) ==
    \A i \in 1..Len(c.files) :
        LET f == c.files[i]
        IN  CASE f.status = "added" -> f.filename \notin present
              [] f.status = "renamed" ->
                    f.previous_filename \in present /\ f.filename \notin present
              [] OTHER -> f.filename \in present

PresentAfter(present, c) ==
    LET gone == { c.files[i].filename : i \in
                     { k \in 1..Len(c.files) : c.files[k].status = "removed" } }
                \cup
                { c.files[i].previous_filename : i \in
                     { k \in 1..Len(c.files) : c.files[k].status = "renamed" } }
        come == { c.files[i].filename : i \in
                     { k \in 1..Len(c.files) :
                          c.files[k].status \in {"added", "renamed"} } }
    IN  (present \ gone) \cup come

RECURSIVE ValidFrom(_, _, _)
ValidFrom(present, hist, i) ==
    IF i > Len(hist) THEN TRUE
    ELSE /\ Applicable(present, hist[i])
         /\ ValidFrom(PresentAfter(present, hist[i]), hist, i + 1)

\* hist, oldest first, is a history some repository can have
Consistent(hist) == \E present \in SUBSET Paths : ValidFrom(present, hist, 1)

Reverse(s) == [i \in 1..Len(s) |-> s[Len(s) + 1 - i]]

\* the commit list in the order of history
Chronological(cs, ord) == IF ord = "oldest_first" THEN cs ELSE Reverse(cs)

(***************************************************************************)
(* The content store.                                                      *)
(*                                                                         *)
(* A time is a positive number; the zero time.Time is ZeroTime and a NULL  *)
(* column is NULL.  A domain.Post is [ID, Title, Snippet, HTMLPath,        *)
(* HTMLContent, UpdatedAt, PublishedAt, CreatedAt]; a row of posts is      *)
(* [title, snippet, html_path, updated_at, published_at, created_at].      *)
(* Every store call is one statement or one transaction of the database,   *)
(* so it is one step; what can fail in it is the parameter o.              *)
(***************************************************************************)
ZeroTime == 0
NULL == -1

\* var updatedAt any; if !p.UpdatedAt.IsZero() { updatedAt = p.UpdatedAt }
ToSQLTime(t) == IF t = ZeroTime THEN NULL ELSE t

\* if pr.UpdatedAt.Valid { post.UpdatedAt = pr.UpdatedAt.Time }
ToDomainTime(v) == IF v = NULL THEN ZeroTime ELSE v

\* a file that a failed os.WriteFile has truncated or half written
PartialContent == <<"partial">>

\* a slip: the upsert overwrites created_at with the value of the call
UpsertCreatedAt_Overwrites(old, new) == new

\* created_at = COALESCE(posts.created_at, excluded.created_at)
UpsertCreatedAt(old, new) == IF old # NULL THEN old ELSE new

\* upsertPostQuery on the table rows; created_at is NOT NULL in the schema
upsertPostQuery(rows, p) ==
    LET createdAt == ToSQLTime(p.CreatedAt)
        excluded == [title |-> p.Title, snippet |-> p.Snippet,
                     html_path |-> p.HTMLPath,
                     updated_at |-> ToSQLTime(p.UpdatedAt),
                     published_at |-> ToSQLTime(p.PublishedAt),
                     created_at |-> createdAt]
    IN  IF createdAt = NULL
        THEN [ok |-> FALSE, rows |-> rows]
        ELSE IF p.ID \in DOMAIN rows
             THEN [ok |-> TRUE,
                   rows |-> [rows EXCEPT ![p.ID] =
                       [excluded EXCEPT !.created_at =
                           UpsertCreatedAt(rows[p.ID].created_at, createdAt)]]]
             ELSE [ok |-> TRUE, rows |-> MapPut(rows, p.ID, excluded)]

\* what a dual write can meet: the transaction cannot begin, the statement
\* fails, the directory or the file cannot be created, the file is written
\* in part, the commit fails after the file was written
SaveOutcomes ==
    {"ok", "begin_fail", "exec_fail", "mkdir_fail", "write_fail",
     "write_partial", "commit_fail"}

\* a slip: the row stays written when the file cannot be written
SavePost_NoRollback(p, o) ==
    LET upsert == upsertPostQuery(postRows, p)
    IN  IF p.ID = << >> \/ o \in {"begin_fail", "exec_fail"} \/ ~upsert.ok
        THEN [err |-> TRUE, rows |-> postRows, files |-> htmlFiles]
        ELSE [err |-> o # "ok", rows |-> upsert.rows,
              files |-> IF o \in {"mkdir_fail", "write_fail"} THEN htmlFiles
                        ELSE MapPut(htmlFiles, p.HTMLPath, p.HTMLContent)]

\* SavePost(p) with outcome o: the rows and files after it and its error
SavePost(p, o) ==
    LET unchanged == [err |-> TRUE, rows |-> postRows, files |-> htmlFiles]
        upsert == upsertPostQuery(postRows, p)
    IN  IF p.ID = << >> THEN unchanged
        ELSE IF o \in {"begin_fail", "exec_fail"} \/ ~upsert.ok THEN unchanged
        ELSE IF o \in {"mkdir_fail", "write_fail"} THEN unchanged
        ELSE IF o = "write_partial"
             THEN [unchanged EXCEPT
                      !.files = MapPut(htmlFiles, p.HTMLPath, PartialContent)]
        ELSE IF o = "commit_fail"
             THEN [unchanged EXCEPT
                      !.files = MapPut(htmlFiles, p.HTMLPath, p.HTMLContent)]
        ELSE [err |-> FALSE, rows |-> upsert.rows,
              files |-> MapPut(htmlFiles, p.HTMLPath, p.HTMLContent)]

\* postRow.toDomain
PostToDomain(id, row) ==
    [ID |-> id, Title |-> row.title, Snippet |-> row.snippet,
     HTMLPath |-> row.html_path, HTMLContent |-> << >>,
     UpdatedAt |-> ToDomainTime(row.updated_at),
     PublishedAt |-> ToDomainTime(row.published_at),
     CreatedAt |-> ToDomainTime(row.created_at)]

\* GetPost(id): found is FALSE for sql.ErrNoRows, err is TRUE for every
\* failure, the missing row included; o is whether the query itself works
GetPost(id, o) ==
    IF id = << >> \/ o # "ok" \/ id \notin DOMAIN postRows
    THEN [err |-> TRUE, post |-> [ID |-> << >>]]
    ELSE [err |-> FALSE, post |-> PostToDomain(id, postRows[id])]

\* a slip: the statement matches no row
Publish_MatchesNoRow(postID, o) == [err |-> FALSE, rows |-> postRows]

\* a slip: the statement has no WHERE clause
Publish_EveryRow(postID, o) ==
    IF postID = << >> \/ o # "ok"
    THEN [err |-> TRUE, rows |-> postRows]
    ELSE [err |-> FALSE,
          rows |-> [id \in DOMAIN postRows |->
                      [postRows[id] EXCEPT !.published_at = clock,
                                           !.updated_at = clock]]]

\* Publish(postID): UPDATE posts SET published_at = ?, updated_at = ? WHERE id = ?
Publish(postID, o) ==
    IF postID = << >> \/ o # "ok"
    THEN [err |-> TRUE, rows |-> postRows]
    ELSE [err |-> FALSE,
          rows |-> [id \in DOMAIN postRows |->
                      IF id = postID
                      THEN [postRows[id] EXCEPT !.published_at = clock,
                                                !.updated_at = clock]
                      ELSE postRows[id]]]

\* a slip: the statement leaves updated_at as it is
Unpublish_KeepsUpdatedAt(postID, o) ==
    IF postID = << >> \/ o # "ok"
    THEN [err |-> TRUE, rows |-> postRows]
    ELSE [err |-> FALSE,
          rows |-> [id \in DOMAIN postRows |->
                      IF id = postID
                      THEN [postRows[id] EXCEPT !.published_at = NULL]
                      ELSE postRows[id]]]

\* a slip: a statement that affects no row is an error
Unpublish_UnknownFails(postID, o) ==
    IF postID = << >> \/ o # "ok" \/ postID \notin DOMAIN postRows
    THEN [err |-> TRUE, rows |-> postRows]
    ELSE [err |-> FALSE,
          rows |-> [id \in DOMAIN postRows |->
                      IF id = postID
                      THEN [postRows[id] EXCEPT !.published_at = NULL,
                                                !.updated_at = clock]
                      ELSE postRows[id]]]

\* Unpublish(postID): UPDATE posts SET published_at = NULL, updated_at = ? WHERE id = ?
Unpublish(postID, o) ==
    IF postID = << >> \/ o # "ok"
    THEN [err |-> TRUE, rows |-> postRows]
    ELSE [err |-> FALSE,
          rows |-> [id \in DOMAIN postRows |->
                      IF id = postID
                      THEN [postRows[id] EXCEPT !.published_at = NULL,
                                                !.updated_at = clock]
                      ELSE postRows[id]]]

ExecOutcomes == {"ok", "exec_fail"}

\* a slip: the rows are ordered by updated_at ASC
getLatestUpdatedTimeQuery_Ascending(rows) ==
    LET dated == { id \in DOMAIN rows : rows[id].updated_at # NULL }
        first == { id \in dated :
                     \A other \in dated :
                         rows[other].updated_at >= rows[id].updated_at }
    IN  { rows[id].updated_at : id \in first }

\* getLatestUpdatedTimeQuery: SELECT updated_at FROM posts WHERE updated_at
\* IS NOT NULL ORDER BY updated_at DESC LIMIT 1; the set holds the value of
\* the one row returned and is empty for sql.ErrNoRows
getLatestUpdatedTimeQuery(rows) ==
    LET dated == { id \in DOMAIN rows : rows[id].updated_at # NULL }
        first == { id \in dated :
                     \A other \in dated :
                         rows[other].updated_at <= rows[id].updated_at }
    IN  { rows[id].updated_at : id \in first }

\* GetLatestUpdatedTime(): the zero time and no error for sql.ErrNoRows, the
\* error of any other failure of the query
GetLatestUpdatedTime(o) ==
    LET row == getLatestUpdatedTimeQuery(postRows)
    IN  IF o # "ok" THEN [err |-> TRUE, time |-> ZeroTime]
        ELSE IF row = {} THEN [err |-> FALSE, time |-> ZeroTime]
        ELSE [err |-> FALSE, time |-> ToDomainTime(CHOOSE t \in row : TRUE)]

\* filepath.Base: the path after its last slash
RECURSIVE Base(_)
Base(path) ==
    IF \E i \in 1..Len(path) : path[i] = "/"
    THEN Base(Tail(path))
    ELSE path

\* upsertImageQuery; created_at is NOT NULL in the schema
upsertImageQuery(rows, img) ==
    LET createdAt == ToSQLTime(img.CreatedAt)
        excluded == [hash |-> img.Hash,
                     updated_at |-> ToSQLTime(img.UpdatedAt),
                     created_at |-> createdAt]
    IN  IF createdAt = NULL
        THEN [ok |-> FALSE, rows |-> rows]
        ELSE IF img.Path \in DOMAIN rows
             THEN [ok |-> TRUE,
                   rows |-> [rows EXCEPT ![img.Path] =
                       [excluded EXCEPT !.created_at =
                           UpsertCreatedAt(rows[img.Path].created_at, createdAt)]]]
             ELSE [ok |-> TRUE, rows |-> MapPut(rows, img.Path, excluded)]

\* SaveImage(img) with outcome o
SaveImage(img, o) ==
    LET unchanged == [err |-> TRUE, rows |-> imageRows, files |-> imageFiles]
        upsert == upsertImageQuery(imageRows, img)
        localPath == Base(img.Path)
    IN  IF img.Path = << >> THEN unchanged
        ELSE IF o \in {"begin_fail", "exec_fail"} \/ ~upsert.ok THEN unchanged
        ELSE IF o \in {"mkdir_fail", "write_fail"} THEN unchanged
        ELSE IF o = "write_partial"
             THEN [unchanged EXCEPT
                      !.files = MapPut(imageFiles, localPath, PartialContent)]
        ELSE IF o = "commit_fail"
             THEN [unchanged EXCEPT
                      !.files = MapPut(imageFiles, localPath, img.Content)]
        ELSE [err |-> FALSE, rows |-> upsert.rows,
              files |-> MapPut(imageFiles, localPath, img.Content)]

\* GetImage(path)
GetImage(path, o) ==
    IF path = << >> \/ o # "ok" \/ path \notin DOMAIN imageRows
    THEN [err |-> TRUE, image |-> [Path |-> << >>, Hash |-> << >>]]
    ELSE [err |-> FALSE,
          image |-> [Path |-> path, Hash |-> imageRows[path].hash,
                     UpdatedAt |-> ToDomainTime(imageRows[path].updated_at),
                     CreatedAt |-> ToDomainTime(imageRows[path].created_at)]]

DeleteOutcomes == {"ok", "begin_fail", "exec_fail", "remove_fail", "commit_fail"}

\* a slip: a file that is missing already makes the call fail
DeleteImage_MissingFileFails(path, o) ==
    IF path = << >> \/ o # "ok" \/ Base(path) \notin DOMAIN imageFiles
    THEN [err |-> TRUE, rows |-> imageRows, files |-> imageFiles]
    ELSE [err |-> FALSE, rows |-> MapDelete(imageRows, path),
          files |-> MapDelete(imageFiles, Base(path))]

\* a slip: the row is deleted and the file is left on the disk
DeleteImage_KeepsFile(path, o) ==
    [err |-> FALSE, rows |-> MapDelete(imageRows, path), files |-> imageFiles]

\* DeleteImage(path) with outcome o: the row is deleted in the transaction,
\* then the file is removed; a missing file is no error
DeleteImage(path, o) ==
    LET unchanged == [err |-> TRUE, rows |-> imageRows, files |-> imageFiles]
    IN  IF path = << >> THEN unchanged
        ELSE IF o \in {"begin_fail", "exec_fail", "remove_fail"} THEN unchanged
        ELSE IF o = "commit_fail"
             THEN [unchanged EXCEPT !.files = MapDelete(imageFiles, Base(path))]
        ELSE [err |-> FALSE, rows |-> MapDelete(imageRows, path),
              files |-> MapDelete(imageFiles, Base(path))]

StoreInit ==
    /\ postRows = EmptyMap
    /\ htmlFiles = EmptyMap
    /\ imageRows = EmptyMap
    /\ imageFiles = EmptyMap
    /\ clock = 1

(***************************************************************************)
(* Transactions.  A context is [tx]: the transaction it carries, or NoTx.  *)
(* txn is [stack, txs, table, calls, writes, returned]: the frames of the  *)
(* calls of RunInTransaction in progress, the outermost first, each        *)
(* [tx, owner, childErr]; the transactions begun so far, each [state,      *)
(* writes, begunAt, endedAt]; the committed writes; the numbers of calls   *)
(* and of writes made; and what the last call to return has returned:      *)
(* [depth, fnErr, childErr, err].                                          *)
(***************************************************************************)
NoTx == 0

\* GetTx(ctx)
GetTx(ctx) == [tx |-> ctx.tx, ok |-> ctx.tx # NoTx]

\* a slip, the RunInTransaction of before: every call begins a transaction
Owns_Always(ctx) == TRUE

\* RunInTransaction: if _, ok := GetTx(ctx); ok { return fn(ctx) }
Owns(ctx) == ~GetTx(ctx).ok

\* a slip: the transaction is committed although the function has failed
EndOfTx_CommitsOnError(owner, fnErr, commitOk) ==
    IF ~owner THEN "none"
    ELSE IF commitOk THEN "commit" ELSE "commit_fail"

\* what RunInTransaction does with the transaction when fn has returned
EndOfTx(owner, fnErr, commitOk) ==
    IF ~owner THEN "none"
    ELSE IF fnErr THEN "rollback"
    ELSE IF commitOk THEN "commit" ELSE "commit_fail"

\* NewPostService: the context is live and nothing has been called
NoSync ==
    [pc |-> "idle", highWater |-> "ok", listed |-> "ok", branches |-> << >>,
     left |-> << >>, passes |-> << >>, err |-> FALSE]

NoResponse ==
    [delivery |-> "none", status |-> 0, verified |-> FALSE, invoked |-> FALSE,
     cause |-> "none"]

CallInit ==
    /\ lifecycle = [cancelled |-> FALSE, close |-> "idle", inFlight |-> {}]
    /\ catchUp = NoSync
    /\ response = NoResponse

TxInit ==
    txn = [stack |-> << >>, txs |-> << >>, table |-> {}, calls |-> 0,
           writes |-> 0, returned |-> [depth |-> 0, fnErr |-> FALSE, childErr |-> FALSE,
                         err |-> FALSE]]

\* the context the next call is made with: that of the function in progress
CurrentCtx ==
    IF txn.stack = << >> THEN [tx |-> NoTx]
    ELSE [tx |-> txn.stack[Len(txn.stack)].tx]

Depth == Len(txn.stack)

\* the caller of the frame that returns learns the error
Pop(stack, err) ==
    LET rest == SubSeq(stack, 1, Len(stack) - 1)
    IN  IF rest = << >> THEN rest
        ELSE [rest EXCEPT ![Len(rest)].childErr = err]

\* RunInTransaction(ctx, db, fn) is entered
RunInTransaction ==
    /\ txn.calls < MaxTxCalls
    /\ Depth < MaxDepth
    /\ \E beginOk \in BOOLEAN :
          LET ctx == CurrentCtx
              frame(tx, owner) == [tx |-> tx, owner |-> owner, childErr |-> FALSE]
          IN  IF ~Owns(ctx)
              THEN txn' = [txn EXCEPT !.calls = @ + 1,
                                      !.stack = Append(@, frame(ctx.tx, FALSE))]
              ELSE IF beginOk
              THEN txn' = [txn EXCEPT
                             !.calls = @ + 1,
                             !.txs = Append(@, [state |-> "open", writes |-> {},
                                                begunAt |-> Depth + 1, endedAt |-> 0]),
                             !.stack = Append(@, frame(Len(txn.txs) + 1, TRUE))]
              ELSE txn' = [txn EXCEPT
                             !.calls = @ + 1,
                             !.stack = IF @ = << >> THEN @
                                       ELSE [@ EXCEPT ![Len(@)].childErr = TRUE],
                             !.returned = [depth |-> Depth + 1, fnErr |-> FALSE,
                                           childErr |-> FALSE, err |-> TRUE]]
    /\ UNCHANGED <<analyzerVars, storeVars, engineVars, callVars>>

\* the function in progress writes through GetExecutor(ctx, db)
ExecInTx ==
    /\ Depth > 0
    /\ txn.writes < MaxWrites
    /\ LET tx == GetTx(CurrentCtx).tx
       IN  /\ txn.txs[tx].state = "open"
           /\ txn' = [txn EXCEPT
                        !.writes = @ + 1,
                        !.txs[tx].writes = @ \cup {[n |-> txn.writes + 1,
                                                    depth |-> Depth]}]
    /\ UNCHANGED <<analyzerVars, storeVars, engineVars, callVars>>

\* the function in progress returns, with an error or without, and
\* RunInTransaction returns to its caller
ReturnFromTx ==
    /\ Depth > 0
    /\ \E fnErr \in BOOLEAN, commitOk \in BOOLEAN :
          LET top == txn.stack[Depth]
              end == EndOfTx(top.owner, fnErr, commitOk)
              err == fnErr \/ end = "commit_fail"
          IN  /\ (commitOk \/ (top.owner /\ ~fnErr))
              /\ txn' = [txn EXCEPT
                           !.stack = Pop(@, err),
                           !.txs = IF end = "none" THEN @
                                   ELSE [@ EXCEPT ![top.tx].state =
                                            IF end = "commit" THEN "committed"
                                            ELSE "rolledback",
                                         ![top.tx].endedAt = Depth],
                           !.table = IF end = "commit"
                                     THEN @ \cup txn.txs[top.tx].writes ELSE @,
                           !.returned = [depth |-> Depth, fnErr |-> fnErr,
                                         childErr |-> top.childErr, err |-> err]]
    /\ UNCHANGED <<analyzerVars, storeVars, engineVars, callVars>>

(***************************************************************************)
(* The service.  A unit of work is one goroutine of HandlePushEvent or one *)
(* iteration of a loop of processBranch:                                   *)
(*   [event, sync, phase, kind, path, postID, fileInfo, commitSHA,         *)
(*    isMainBranch, pc, hash, now]                                         *)
(* The goroutines of a push run in any interleaving; the units of a        *)
(* catch-up pass run one after the other, in the order of processBranch.   *)
(***************************************************************************)
mainBranchName == "main"
Branches == {"main", "feature"}
RefOf(branch) == "refs/heads/" \o branch

\* the paths the pushed commits touch
EnginePaths == {PostA, PostB, ImgX}

\* the commit lists a push or a branch can deliver: a history, in either
\* order, of at most MaxCommits commits and MaxChanges file changes
RECURSIVE CommitLists(_, _)
CommitLists(n, budget) ==
    IF n = 0 \/ budget = 0 THEN { << >> }
    ELSE { << >> } \cup
         UNION { { Append(cs, [sha |-> Len(cs) + 1, date |-> Len(cs) + 1,
                               files |-> fs]) :
                     fs \in FileLists(EnginePaths, budget - TotalChanges(cs)) } :
                 cs \in { c \in CommitLists(n - 1, budget) :
                            Len(c) = n - 1 /\ TotalChanges(c) < budget } }

DeliveredLists ==
    { cs \in CommitLists(MaxCommits, MaxChanges) :
         Consistent(cs) \/ Consistent(Reverse(cs)) }

\* what analyzeCommitFiles makes of them
DeliveredAnalyses == { analyzeCommitFiles(cs) : cs \in DeliveredLists }

\* the commits of cs but the one at position i
Without(cs, i) == [j \in 1..(Len(cs) - 1) |-> IF j < i THEN cs[j] ELSE cs[j + 1]]

\* a slip: a commit that cannot be resolved is skipped and the others are analysed
analyzeCommitFilesAt_SkipsFailed(cs, failAt) ==
    [failAt |-> failAt, err |-> FALSE,
     result |-> IF failAt = 0 THEN analyzeCommitFiles(cs)
                ELSE analyzeCommitFiles(Without(cs, failAt))]

\* analyzeCommitFiles when s.sourceRepo.GetCommit fails for the commit at
\* position failAt of the list (0: for none): return nil, err
analyzeCommitFilesAt(cs, failAt) ==
    IF failAt = 0
    THEN [failAt |-> 0, err |-> FALSE, result |-> analyzeCommitFiles(cs)]
    ELSE [failAt |-> failAt, err |-> TRUE, result |-> EmptyAnalysis]

\* what analyzeCommitFiles returns for the delivered lists
DeliveredOutcomes ==
    { analyzeCommitFilesAt(cs, f) :
         <<cs, f>> \in { x \in DeliveredLists \X (0..MaxCommits) : x[2] <= Len(x[1]) } }

\* the source repositories that are looked at: one that holds posts and one
\* that holds images
Scopes == { {PostA}, {ImgX} }

AnalysisPaths(a) ==
    DOMAIN a.posts \cup DOMAIN a.images \cup a.postsToRemove \cup a.imagesToRemove

InScope(a) == AnalysisPaths(a) \subseteq scope

\* the sha of the commit at position i of the list of event e: the lists are
\* drawn from the same commits of the source repository
ShaOf(e, i) == i

\* sourceRepo.GetFileContents(path, sha): the version of the file at the commit
GetFileContents(path, sha) == <<path, sha>>

\* markdown.Render: title, snippet and HTML are functions of the content
Render(content) ==
    [Title |-> content, Snippet |-> content, HTMLContent |-> content]

\* calculateHash: SHA-256, taken as injective
calculateHash(content) == <<"sha256", content>>

NoFileInfo == [path |-> NoPath, createdAt |-> ZeroTime, modifiedAt |-> ZeroTime]

\* a slip: the handler has done the work of the unit itself before it returns
Work_RunsInHandler(e, sync, phase, kind, path, commit, main) ==
    [event |-> e, sync |-> sync, phase |-> phase, kind |-> kind, path |-> path,
     postID |-> IF kind = "post" THEN extractPostID(path) ELSE << >>,
     fileInfo |-> IF kind = "post"
                  THEN [path |-> path, createdAt |-> ZeroTime,
                        modifiedAt |-> clock]
                  ELSE NoFileInfo,
     commitSHA |-> IF kind \in {"post", "image"} THEN ShaOf(e, commit.sha)
                   ELSE << >>,
     isMainBranch |-> main,
     pc |-> IF kind = "post" THEN "publish"
            ELSE IF kind = "image" THEN "save" ELSE "start",
     hash |-> << >>, now |-> ZeroTime]

Work(e, sync, phase, kind, path, commit, main) ==
    [event |-> e, sync |-> sync, phase |-> phase, kind |-> kind, path |-> path,
     postID |-> IF kind = "post" THEN extractPostID(path) ELSE << >>,
     fileInfo |-> IF kind = "post"
                  THEN [path |-> path, createdAt |-> ZeroTime,
                        modifiedAt |-> clock]
                  ELSE NoFileInfo,
     commitSHA |-> IF kind \in {"post", "image"} THEN ShaOf(e, commit.sha)
                   ELSE << >>,
     isMainBranch |-> main,
     pc |-> IF kind = "post" /\ sync THEN "lookup" ELSE "start",
     hash |-> << >>, now |-> ZeroTime]

NoWork == [kind |-> "none", err |-> FALSE]

\* existingPost, err := s.repo.GetPost(s.ctx, postID); createdAt := modifiedAt;
\* if err == nil && existingPost != nil { createdAt = existingPost.CreatedAt }
CreatedAtFor(postID, modifiedAt, o) ==
    LET r == GetPost(postID, o)
    IN  IF ~r.err THEN r.post.CreatedAt ELSE modifiedAt

\* the units of work one analysis result leads to
RemovalWork(e, sync, a, main) ==
    { Work(e, sync, 1, "unpublish", f, [sha |-> 0], main) : f \in a.postsToRemove }
    \cup
    { Work(e, sync, 2, "removeImage", f, [sha |-> 0], main) : f \in a.imagesToRemove }

PostWork(e, sync, a, main) ==
    { Work(e, sync, 3, "post", f, a.posts[f], main) :
         f \in { g \in DOMAIN a.posts : extractPostID(g) # << >> } }

ImageWork(e, sync, a, main) ==
    { Work(e, sync, 4, "image", f, a.images[f], main) : f \in DOMAIN a.images }

EventNo == pushes + syncs + 1

\* s.ctx: the outcomes a call of the content store can have; database/sql
\* returns the error of a cancelled context before it runs anything
WithCtx(outcomes) ==
    IF lifecycle.cancelled THEN outcomes \cap {"begin_fail", "exec_fail"}
    ELSE outcomes

\* what analyzeCommitFiles makes of one commit of a source repository whose
\* posts directory holds two files with the ID 001
SameIDOutcomes ==
    { analyzeCommitFilesAt(<<[sha |-> 1, date |-> 1, files |-> fs]>>, 0) :
         fs \in FileLists({PostA, PostA2}, MaxChanges) }

\* GetCommitsInRange, GetCommit of the head commit or GetCommitsSince has
\* failed: there is no list to analyse
NoList == [failAt |-> 0, err |-> TRUE, result |-> EmptyAnalysis]

\* what a handler comes to before its loops: the list cannot be fetched, or
\* analyzeCommitFiles fails or returns a result
Outcomes ==
    { d \in DeliveredOutcomes : InScope(d.result) } \cup {NoList}
    \cup (IF PostA2 \in scope THEN SameIDOutcomes ELSE {})

\* what the analysis of a push or of a branch has come to when the handler
\* goes on to its loops or returns the error
Returned(handler, main, r) ==
    [kind |-> handler, err |-> r.err, failAt |-> r.failAt,
     isMainBranch |-> main, result |-> r.result]

\* HandlePushEvent(evt): the commits of the push are analysed and one
\* goroutine is spawned for each file; removals only for the main branch.
\* Its caller writes the response.
HandlePushEvent ==
    /\ pushes < MaxPushes
    /\ \E branch \in Branches, r \in Outcomes :
          LET ref == RefOf(branch)
              isMainBranch == ref = "refs/heads/" \o mainBranchName
              a == r.result
              posts == PostWork(EventNo, FALSE, a, isMainBranch)
          IN  /\ IF r.err
                 THEN workers' = workers
                 ELSE \E get \in [posts -> WithCtx(ExecOutcomes)] :
                        workers' = workers
                           \cup (IF isMainBranch
                                 THEN RemovalWork(EventNo, FALSE, a, isMainBranch)
                                 ELSE {})
                           \cup { [w EXCEPT !.fileInfo.createdAt =
                                      CreatedAtFor(w.postID, w.fileInfo.modifiedAt,
                                                   get[w])] :
                                   w \in posts }
                           \cup ImageWork(EventNo, FALSE, a, isMainBranch)
              /\ finished' = Returned("HandlePushEvent", isMainBranch, r)
    /\ Cardinality(workers') <= MaxWorkers
    /\ pushes' = pushes + 1
    /\ UNCHANGED <<lifecycle, catchUp, txVars, analyzerVars, storeVars, syncs, scope>>

\* processBranch(lastUpdatedAt, branch): a catch-up pass over one branch; the
\* removals are applied whatever the branch is.  The loop that calls it goes
\* on to the next branch.
processBranch(branch) ==
    /\ \A v \in workers : ~v.sync
    /\ \E r \in Outcomes :
          LET isMainBranch == RefOf(branch) = "refs/heads/" \o mainBranchName
              a == r.result
          IN  /\ IF r.err
                 THEN workers' = workers
                 ELSE workers' = workers
                         \cup RemovalWork(EventNo, TRUE, a, isMainBranch)
                         \cup PostWork(EventNo, TRUE, a, isMainBranch)
                         \cup ImageWork(EventNo, TRUE, a, isMainBranch)
              /\ finished' = Returned("processBranch", isMainBranch, r)
    /\ Cardinality(workers') <= MaxWorkers
    /\ syncs' = syncs + 1
    /\ UNCHANGED <<lifecycle, response, txVars, analyzerVars, storeVars, pushes,
                   scope>>

\* the unit w may take its next step: a goroutine at any time, a unit of a
\* catch-up pass when the units before it have ended
NotBegun(v) == v.pc = (IF v.kind = "post" /\ v.sync THEN "lookup" ELSE "start")

\* a slip: the units of a catch-up pass run like goroutines
Runnable_Always(w) == TRUE

Runnable(w) ==
    \/ ~w.sync
    \/ \A v \in workers \ {w} :
          (v.sync /\ v.event = w.event) => (v.phase >= w.phase /\ NotBegun(v))

Ended(w, err) == [kind |-> w.kind, err |-> err, work |-> w]

Finish(w, err) ==
    /\ workers' = workers \ {w}
    /\ finished' = Ended(w, err)

Continue(w, next) ==
    /\ workers' = (workers \ {w}) \cup {next}
    /\ finished' = NoWork

\* s.repo.Unpublish(s.ctx, capturedPath): the argument is the path of the file.
\* In a catch-up pass an error ends the pass.
UnpublishRemoved(w) ==
    /\ w.kind = "unpublish"
    /\ \E o \in WithCtx(ExecOutcomes) :
          LET r == Unpublish(w.path, o)
          IN  /\ postRows' = r.rows
              /\ workers' = IF w.sync /\ r.err
                            THEN { v \in workers : ~(v.sync /\ v.event = w.event) }
                            ELSE workers \ {w}
              /\ finished' = Ended(w, r.err)
    /\ UNCHANGED <<callVars, txVars, analyzerVars, htmlFiles, imageRows, imageFiles, clock,
                   pushes, syncs, scope>>

\* removeImage(imagePath)
removeImage(w) ==
    /\ w.kind = "removeImage"
    /\ \E o \in WithCtx(DeleteOutcomes) :
          LET r == DeleteImage(w.path, o)
          IN  /\ imageRows' = r.rows
              /\ imageFiles' = r.files
              /\ Finish(w, r.err)
    /\ UNCHANGED <<callVars, txVars, analyzerVars, postRows, htmlFiles, clock, pushes, syncs,
                   scope>>

\* upsertPosts: the GetPost before processPostFile
upsertPosts(w) ==
    /\ w.kind = "post" /\ w.pc = "lookup"
    /\ \E o \in WithCtx(ExecOutcomes) :
          Continue(w, [w EXCEPT !.pc = "start",
                                !.fileInfo.createdAt =
                                    CreatedAtFor(w.postID, w.fileInfo.modifiedAt, o)])
    /\ UNCHANGED <<callVars, txVars, analyzerVars, storeVars, pushes, syncs, scope>>

\* GetFileContents and Render may fail; what GetFileContents does with a
\* cancelled context is its own choice, so that it may still return the bytes
PostOutcomes == {"fetch_fail", "render_fail"} \cup WithCtx(SaveOutcomes)

\* a slip: the rendered page of every post goes to one file
PostOf_OneFile(w) ==
    LET result == Render(GetFileContents(w.fileInfo.path, w.commitSHA))
    IN  [ID |-> w.postID, Title |-> result.Title, Snippet |-> result.Snippet,
         HTMLPath |-> <<"p", "o", "s", "t">> \o <<".", "h", "t", "m", "l">>,
         HTMLContent |-> result.HTMLContent,
         UpdatedAt |-> w.fileInfo.modifiedAt,
         PublishedAt |-> ZeroTime,
         CreatedAt |-> w.fileInfo.createdAt]

\* the domain.Post processPostFile builds; PublishedAt is left zero
PostOf(w) ==
    LET result == Render(GetFileContents(w.fileInfo.path, w.commitSHA))
    IN  [ID |-> w.postID, Title |-> result.Title, Snippet |-> result.Snippet,
         HTMLPath |-> w.postID \o <<".", "h", "t", "m", "l">>,
         HTMLContent |-> result.HTMLContent,
         UpdatedAt |-> w.fileInfo.modifiedAt,
         PublishedAt |-> ZeroTime,
         CreatedAt |-> w.fileInfo.createdAt]

\* processPostFile up to SavePost
processPostFile(w) ==
    /\ w.kind = "post" /\ w.pc = "start"
    /\ \E o \in PostOutcomes :
          IF o \in {"fetch_fail", "render_fail"}
          THEN /\ Finish(w, TRUE)
               /\ UNCHANGED <<postRows, htmlFiles>>
          ELSE LET r == SavePost(PostOf(w), o)
               IN  /\ postRows' = r.rows
                   /\ htmlFiles' = r.files
                   /\ IF r.err THEN Finish(w, TRUE)
                      ELSE IF w.isMainBranch
                           THEN Continue(w, [w EXCEPT !.pc = "publish"])
                           ELSE Finish(w, FALSE)
    /\ UNCHANGED <<callVars, txVars, analyzerVars, imageRows, imageFiles, clock, pushes, syncs,
                   scope>>

\* processPostFile: if isMainBranch { s.repo.Publish(ctx, postID) }
publishPost(w) ==
    /\ w.kind = "post" /\ w.pc = "publish"
    /\ \E o \in WithCtx(ExecOutcomes) :
          LET r == Publish(w.postID, o)
          IN  /\ postRows' = r.rows
              /\ Finish(w, r.err)
    /\ UNCHANGED <<callVars, txVars, analyzerVars, htmlFiles, imageRows, imageFiles, clock,
                   pushes, syncs, scope>>

\* processImageFile up to the comparison of the hashes
processImageFile(w) ==
    /\ w.kind = "image" /\ w.pc = "start"
    /\ \E o \in {"fetch_fail"} \cup WithCtx(ExecOutcomes) :
          LET hash == calculateHash(GetFileContents(w.path, w.commitSHA))
              r == GetImage(w.path, o)
          IN  IF o = "fetch_fail" THEN Finish(w, TRUE)
              ELSE IF ~r.err /\ r.image.Hash = hash THEN Finish(w, FALSE)
              ELSE Continue(w, [w EXCEPT !.pc = "save", !.hash = hash,
                                         !.now = clock])
    /\ UNCHANGED <<callVars, txVars, analyzerVars, storeVars, pushes, syncs, scope>>

ImageOf(w) ==
    [Path |-> w.path, Hash |-> w.hash,
     Content |-> GetFileContents(w.path, w.commitSHA),
     UpdatedAt |-> w.now, CreatedAt |-> w.now]

\* processImageFile: s.imageRepo.SaveImage(ctx, img)
saveImage(w) ==
    /\ w.kind = "image" /\ w.pc = "save"
    /\ \E o \in WithCtx(SaveOutcomes) :
          LET r == SaveImage(ImageOf(w), o)
          IN  /\ imageRows' = r.rows
              /\ imageFiles' = r.files
              /\ Finish(w, r.err)
    /\ UNCHANGED <<callVars, txVars, analyzerVars, postRows, htmlFiles, clock, pushes, syncs,
                   scope>>

\* time passes
Tick ==
    /\ clock < MaxClock
    /\ clock' = clock + 1
    /\ finished' = NoWork
    /\ UNCHANGED <<callVars, txVars, analyzerVars, postRows, htmlFiles, imageRows, imageFiles,
                   workers, pushes, syncs, scope>>

EngineInit ==
    /\ workers = {}
    /\ pushes = 0
    /\ syncs = 0
    /\ finished = NoWork

Step(w) ==
    \/ UnpublishRemoved(w)
    \/ removeImage(w)
    \/ upsertPosts(w)
    \/ processPostFile(w)
    \/ publishPost(w)
    \/ processImageFile(w)
    \/ saveImage(w)

\* a push comes in
Push == HandlePushEvent /\ UNCHANGED response

\* a catch-up pass over some branch
Pass ==
    /\ syncs < MaxSyncs
    /\ \E branch \in Branches : processBranch(branch)
    /\ UNCHANGED catchUp

(***************************************************************************)
(* Close.  The wait group holds the goroutines that s.wg.Go has spawned    *)
(* and that have not returned; the units of a catch-up pass run in the     *)
(* caller of SyncRepositoryChanges and are not in it.                      *)
(***************************************************************************)
Goroutines == { w \in workers : ~w.sync }

\* a unit of work is known by its event, its kind and its path
WorkKey(w) == <<w.event, w.kind, w.path>>

\* a slip: Wait returns while the counter of the group is above zero
wgWait_NoWait == TRUE

\* a slip: the counter of the group is never taken down
wgWait_NeverDone == FALSE

\* s.wg.Wait() can return: the counter of the group is zero
wgWait == Goroutines = {}

\* Close: s.cancel(), and s.wg.Wait() is entered
Close ==
    /\ lifecycle.close = "idle"
    /\ lifecycle' = [cancelled |-> TRUE, close |-> "waiting",
                     inFlight |-> { WorkKey(w) : w \in Goroutines }]
    /\ finished' = NoWork
    /\ UNCHANGED <<analyzerVars, storeVars, workers, pushes, syncs, scope, txVars,
                   catchUp, response>>

\* Close: s.wg.Wait() returns, and Close returns nil
CloseReturns ==
    /\ lifecycle.close = "waiting"
    /\ wgWait
    /\ lifecycle' = [lifecycle EXCEPT !.close = "returned"]
    /\ finished' = [kind |-> "Close", err |-> FALSE]
    /\ UNCHANGED <<analyzerVars, storeVars, workers, pushes, syncs, scope, txVars,
                   catchUp, response>>

(***************************************************************************)
(* SpecClose: pushes, their goroutines, and one call of Close at any time. *)
(***************************************************************************)
InitClose ==
    /\ commits = << >>
    /\ order = "oldest_first"
    /\ analysis = EmptyAnalysis
    /\ StoreInit
    /\ workers = {}
    /\ pushes = 0
    /\ syncs = MaxSyncs
    /\ finished = NoWork
    /\ scope \in Scopes
    /\ TxInit
    /\ CallInit

GoroutineStep ==
    \E w \in Goroutines :
       \/ UnpublishRemoved(w)
       \/ removeImage(w)
       \/ processPostFile(w)
       \/ publishPost(w)
       \/ processImageFile(w)
       \/ saveImage(w)

NextClose ==
    \/ Push
    \/ Close
    \/ CloseReturns
    \/ Tick
    \/ GoroutineStep

SpecClose == InitClose /\ [][NextClose]_vars

\* every call of a collaborator returns, and so does Wait when it can
SpecCloseFair ==
    SpecClose /\ WF_vars(GoroutineStep) /\ WF_vars(CloseReturns)

(***************************************************************************)
(* HandleGitWebhook.  A delivery has a bad signature or body, or cannot be *)
(* parsed, or is an event other than a push, or is a push.  response is    *)
(* what was written for the last one, whether the payload had been         *)
(* validated, whether HandlePushEvent was called and why it failed.        *)
(***************************************************************************)
StatusNoContent == 204
StatusBadRequest == 400
StatusInternalServerError == 500

Deliveries == {"invalid_payload", "invalid_event", "other_event", "push"}

\* a slip: every failure is answered with a server error
StatusOf_ServerError(delivery, err) ==
    IF delivery \in {"invalid_payload", "invalid_event"}
    THEN StatusInternalServerError
    ELSE IF delivery = "push" /\ err THEN StatusInternalServerError
    ELSE StatusNoContent

\* the status HandleGitWebhook writes
StatusOf(delivery, err) ==
    IF delivery \in {"invalid_payload", "invalid_event"} THEN StatusBadRequest
    ELSE IF delivery = "push" /\ err THEN StatusInternalServerError
    ELSE StatusNoContent

CauseOf(ret) ==
    IF ~ret.err THEN "none" ELSE IF ret.failAt = 0 THEN "list" ELSE "analysis"

HandleGitWebhook ==
    \E delivery \in Deliveries :
       IF delivery = "push"
       THEN /\ HandlePushEvent
            /\ response' = [delivery |-> delivery,
                            status |-> StatusOf(delivery, finished'.err),
                            verified |-> TRUE, invoked |-> TRUE,
                            cause |-> CauseOf(finished')]
       ELSE /\ response' = [delivery |-> delivery,
                            status |-> StatusOf(delivery, FALSE),
                            verified |-> delivery # "invalid_payload",
                            invoked |-> FALSE, cause |-> "none"]
            /\ finished' = NoWork
            /\ UNCHANGED <<analyzerVars, storeVars, workers, pushes, syncs, scope,
                           txVars, lifecycle, catchUp>>

(***************************************************************************)
(* SpecWebhook: deliveries to the webhook and the goroutines of the pushes *)
(***************************************************************************)
InitWebhook ==
    /\ commits = << >>
    /\ order = "oldest_first"
    /\ analysis = EmptyAnalysis
    /\ StoreInit
    /\ workers = {}
    /\ pushes = 0
    /\ syncs = MaxSyncs
    /\ finished = NoWork
    /\ scope \in Scopes
    /\ TxInit
    /\ CallInit

NextWebhook ==
    \/ HandleGitWebhook
    \/ GoroutineStep

SpecWebhook == InitWebhook /\ [][NextWebhook]_vars

(***************************************************************************)
(* SyncRepositoryChanges.  catchUp is the call: where it is, what          *)
(* GetLatestUpdatedTime and ListBranches came to, the branches listed, the *)
(* branches left, the passes made and whether each returned an error, and  *)
(* the error of the call.                                                  *)
(***************************************************************************)
\* ListBranches: the branches, each once, in some order
RECURSIVE ListsOver(_)
ListsOver(S) ==
    { << >> } \cup UNION { { <<b>> \o t : t \in ListsOver(S \ {b}) } : b \in S }

BranchLists == ListsOver(Branches)

\* a slip: the errors of the first two calls are logged and the loop is entered
SyncStart_IgnoresError(hw, lb, branches) ==
    [pc |-> "loop", highWater |-> hw, listed |-> lb, branches |-> branches,
     left |-> branches, passes |-> << >>, err |-> FALSE]

\* SyncRepositoryChanges up to its loop: hw and lb are the outcomes of
\* GetLatestUpdatedTime and of ListBranches
SyncStart(hw, lb, branches) ==
    IF hw # "ok" \/ lb # "ok"
    THEN [pc |-> "returned", highWater |-> hw, listed |-> lb, branches |-> << >>,
          left |-> << >>, passes |-> << >>, err |-> TRUE]
    ELSE [pc |-> "loop", highWater |-> hw, listed |-> lb, branches |-> branches,
          left |-> branches, passes |-> << >>, err |-> FALSE]

\* a slip: the error of a branch ends the loop and is returned
processBranches_ReturnsError(c, branch, err) ==
    IF err
    THEN [c EXCEPT !.pc = "returned", !.err = TRUE, !.left = << >>,
                   !.passes = Append(@, [branch |-> branch, err |-> err])]
    ELSE [c EXCEPT !.left = Tail(@),
                   !.passes = Append(@, [branch |-> branch, err |-> err])]

\* processBranches: the error of processBranch is logged; continue
processBranches(c, branch, err) ==
    [c EXCEPT !.left = Tail(@),
              !.passes = Append(@, [branch |-> branch, err |-> err])]

SyncRepositoryChanges ==
    /\ catchUp.pc = "idle"
    /\ \E hw \in WithCtx(ExecOutcomes), lb \in {"ok", "fail"},
          branches \in BranchLists :
          /\ catchUp' = SyncStart(hw, lb, branches)
          /\ finished' = IF catchUp'.pc = "returned"
                         THEN [kind |-> "SyncRepositoryChanges", err |-> catchUp'.err]
                         ELSE NoWork
    /\ UNCHANGED <<analyzerVars, storeVars, workers, pushes, syncs, scope, txVars,
                   lifecycle, response>>

\* the loop of SyncRepositoryChanges: the next branch, when the units of the
\* branch before it have ended
NextBranch ==
    /\ catchUp.pc = "loop"
    /\ catchUp.left # << >>
    /\ processBranch(Head(catchUp.left))
    /\ catchUp' = processBranches(catchUp, Head(catchUp.left), finished'.err)

\* return nil
SyncReturns ==
    /\ catchUp.pc = "loop"
    /\ catchUp.left = << >>
    /\ \A v \in workers : ~v.sync
    /\ catchUp' = [catchUp EXCEPT !.pc = "returned"]
    /\ finished' = [kind |-> "SyncRepositoryChanges", err |-> catchUp.err]
    /\ UNCHANGED <<analyzerVars, storeVars, workers, pushes, syncs, scope, txVars,
                   lifecycle, response>>

(***************************************************************************)
(* SpecSync: one call of SyncRepositoryChanges and its units of work.      *)
(***************************************************************************)
SyncScopes == Scopes \cup { {PostA, PostB} }

InitSync ==
    /\ commits = << >>
    /\ order = "oldest_first"
    /\ analysis = EmptyAnalysis
    /\ StoreInit
    /\ workers = {}
    /\ pushes = MaxPushes
    /\ syncs = 0
    /\ finished = NoWork
    /\ scope \in SyncScopes
    /\ TxInit
    /\ CallInit

NextSync ==
    \/ SyncRepositoryChanges
    \/ NextBranch
    \/ SyncReturns
    \/ Tick
    \/ \E w \in workers : Runnable(w) /\ Step(w)

SpecSync == InitSync /\ [][NextSync]_vars

(***************************************************************************)
(* Spec: the service, with pushes and catch-up passes arriving at any time *)
(***************************************************************************)
Init ==
    /\ commits = << >>
    /\ order = "oldest_first"
    /\ analysis = EmptyAnalysis
    /\ StoreInit
    /\ EngineInit
    /\ scope \in Scopes
    /\ TxInit
    /\ CallInit

Next ==
    \/ Push
    \/ Pass
    \/ Tick
    \/ \E w \in workers : Runnable(w) /\ Step(w)

Spec == Init /\ [][Next]_vars

(***************************************************************************)
(* SpecBatch: one push that touches two posts, and its goroutines.         *)
(***************************************************************************)
InitBatch ==
    /\ commits = << >>
    /\ order = "oldest_first"
    /\ analysis = EmptyAnalysis
    /\ StoreInit
    /\ workers = {}
    /\ pushes = MaxPushes - 1
    /\ syncs = MaxSyncs
    /\ finished = NoWork
    /\ scope = {PostA, PostB}
    /\ TxInit
    /\ CallInit

NextBatch ==
    \/ Push
    \/ Tick
    \/ \E w \in workers : UnpublishRemoved(w)
    \/ \E w \in workers : processPostFile(w)
    \/ \E w \in workers : publishPost(w)

SpecBatch == InitBatch /\ [][NextBatch]_vars

(***************************************************************************)
(* SpecSameID: one push of a source repository with two files of the post  *)
(* 001 and the goroutines of the push.                                     *)
(***************************************************************************)
InitSameID ==
    /\ commits = << >>
    /\ order = "oldest_first"
    /\ analysis = EmptyAnalysis
    /\ StoreInit
    /\ workers = {}
    /\ pushes = MaxPushes - 1
    /\ syncs = MaxSyncs
    /\ finished = NoWork
    /\ scope = {PostA, PostA2}
    /\ TxInit
    /\ CallInit

NextSameID ==
    \/ Push
    \/ Tick
    \/ \E w \in workers : UnpublishRemoved(w)
    \/ \E w \in workers : processPostFile(w)
    \/ \E w \in workers : publishPost(w)

SpecSameID == InitSameID /\ [][NextSameID]_vars

(***************************************************************************)
(* SpecTx: calls of RunInTransaction, one inside the other, with writes    *)
(* between them, any of which may fail.                                    *)
(***************************************************************************)
InitTx ==
    /\ commits = << >>
    /\ order = "oldest_first"
    /\ analysis = EmptyAnalysis
    /\ StoreInit
    /\ EngineInit
    /\ scope = {}
    /\ TxInit
    /\ CallInit

NextTx ==
    \/ RunInTransaction
    \/ ExecInTx
    \/ ReturnFromTx

SpecTx == InitTx /\ [][NextTx]_vars

(***************************************************************************)
(* SpecStore: the content store under any sequence of calls, each with any *)
(* argument and any outcome of its statements and of its file operations.  *)
(* finished holds the call of the last step, its outcome and its error.    *)
(***************************************************************************)
Contents == { <<"a">>, <<"b">> }

\* the times a caller can pass at the current time
TimeArgs == {ZeroTime, clock}

\* the dates a commit can have: no date, the current time, a time to come
DateArgs == {ZeroTime, clock, MaxClock}

HTMLPathOf(id) == id \o <<".", "h", "t", "m", "l">>

\* the IDs and the image paths of the calls, the empty one included
PostIDs == { extractPostID(f) : f \in { g \in scope : isPostFile(g) } }
ImagePaths == { f \in scope : isImageFile(f) }
IDArgs == IF PostIDs = {} THEN {} ELSE PostIDs \cup { << >> }
PathArgs == IF ImagePaths = {} THEN {} ELSE ImagePaths \cup { << >> }

PostArg(id, c, u, pub, cr) ==
    [ID |-> id, Title |-> c, Snippet |-> c, HTMLPath |-> HTMLPathOf(id),
     HTMLContent |-> c, UpdatedAt |-> u, PublishedAt |-> pub, CreatedAt |-> cr]

\* the posts of the calls of SavePost; one of them has no ID
PostArgs ==
    { PostArg(id, c, u, pub, cr) :
        id \in PostIDs, c \in Contents, u \in DateArgs, pub \in TimeArgs,
        cr \in TimeArgs }
    \cup { PostArg(id, <<"a">>, clock, ZeroTime, clock) : id \in IDArgs \ PostIDs }

ImageArg(f, c, u, cr) ==
    [Path |-> f, Hash |-> calculateHash(c), Content |-> c, UpdatedAt |-> u,
     CreatedAt |-> cr]

\* the images of the calls of SaveImage; one of them has no path
ImageArgs ==
    { ImageArg(f, c, u, cr) :
        f \in ImagePaths, c \in Contents, u \in TimeArgs, cr \in TimeArgs }
    \cup { ImageArg(f, <<"a">>, clock, clock) : f \in PathArgs \ ImagePaths }

\* whether the row and the file of a call's ID or path are there, and whether
\* the post is published
Has(rows, key, files, name, published) ==
    [row |-> key \in DOMAIN rows, file |-> name \in DOMAIN files,
     published |-> published]

HasPost(id) ==
    Has(postRows, id, htmlFiles, HTMLPathOf(id),
        id \in DOMAIN postRows /\ postRows[id].published_at # NULL)
HasImage(f) == Has(imageRows, f, imageFiles, Base(f), FALSE)

\* the call of the step: its argument, its outcome, its error and what there
\* was before it
Called(op, arg, o, err, before) ==
    [kind |-> op, arg |-> arg, o |-> o, err |-> err, before |-> before]

CallSavePost ==
    /\ \E p \in PostArgs, o \in SaveOutcomes :
          LET r == SavePost(p, o)
          IN  /\ postRows' = r.rows
              /\ htmlFiles' = r.files
              /\ finished' = Called("SavePost", p, o, r.err, HasPost(p.ID))
    /\ UNCHANGED <<callVars, txVars, analyzerVars, imageRows, imageFiles, clock, workers, pushes,
                   syncs, scope>>

CallPublish ==
    /\ \E id \in IDArgs, o \in ExecOutcomes :
          LET r == Publish(id, o)
          IN  /\ postRows' = r.rows
              /\ finished' = Called("Publish", id, o, r.err, HasPost(id))
    /\ UNCHANGED <<callVars, txVars, analyzerVars, htmlFiles, imageRows, imageFiles, clock, workers,
                   pushes, syncs, scope>>

CallUnpublish ==
    /\ \E id \in IDArgs, o \in ExecOutcomes :
          LET r == Unpublish(id, o)
          IN  /\ postRows' = r.rows
              /\ finished' = Called("Unpublish", id, o, r.err, HasPost(id))
    /\ UNCHANGED <<callVars, txVars, analyzerVars, htmlFiles, imageRows, imageFiles, clock, workers,
                   pushes, syncs, scope>>

CallSaveImage ==
    /\ \E img \in ImageArgs, o \in SaveOutcomes :
          LET r == SaveImage(img, o)
          IN  /\ imageRows' = r.rows
              /\ imageFiles' = r.files
              /\ finished' = Called("SaveImage", img, o, r.err, HasImage(img.Path))
    /\ UNCHANGED <<callVars, txVars, analyzerVars, postRows, htmlFiles, clock, workers, pushes,
                   syncs, scope>>

CallDeleteImage ==
    /\ \E f \in PathArgs, o \in DeleteOutcomes :
          LET r == DeleteImage(f, o)
          IN  /\ imageRows' = r.rows
              /\ imageFiles' = r.files
              /\ finished' = Called("DeleteImage", f, o, r.err, HasImage(f))
    /\ UNCHANGED <<callVars, txVars, analyzerVars, postRows, htmlFiles, clock, workers, pushes,
                   syncs, scope>>

InitStore == Init

NextStore ==
    \/ CallSavePost
    \/ CallPublish
    \/ CallUnpublish
    \/ CallSaveImage
    \/ CallDeleteImage
    \/ Tick

SpecStore == InitStore /\ [][NextStore]_vars


(***************************************************************************)
(* SpecPosts: the posts table and the rendered pages of two posts under    *)
(* any sequence of calls of the post repository.                           *)
(***************************************************************************)
\* what a read has returned: its outcome, its error and its value
Read(op, arg, o, err, value) ==
    [kind |-> op, arg |-> arg, o |-> o, err |-> err, value |-> value]

CallGetLatestUpdatedTime ==
    /\ \E o \in ExecOutcomes :
          LET r == GetLatestUpdatedTime(o)
          IN  finished' = Read("GetLatestUpdatedTime", << >>, o, r.err, r.time)
    /\ UNCHANGED <<callVars, txVars, analyzerVars, storeVars, workers, pushes,
                   syncs, scope>>

\* the posts the service saves: PublishedAt is left zero, UpdatedAt is the
\* date of the commit, CreatedAt the one of the row or the date of the commit
ServicePosts ==
    { PostArg(id, <<"a">>, u, ZeroTime, clock) : id \in PostIDs, u \in DateArgs }

\* SavePost of a post of the service; the statement fails or the call succeeds
CallSavePostOfService ==
    /\ \E p \in ServicePosts, o \in ExecOutcomes :
          LET r == SavePost(p, o)
          IN  /\ postRows' = r.rows
              /\ htmlFiles' = r.files
              /\ finished' = Called("SavePost", p, o, r.err, HasPost(p.ID))
    /\ UNCHANGED <<callVars, txVars, analyzerVars, imageRows, imageFiles, clock, workers, pushes,
                   syncs, scope>>

InitPosts ==
    /\ commits = << >>
    /\ order = "oldest_first"
    /\ analysis = EmptyAnalysis
    /\ StoreInit
    /\ EngineInit
    /\ scope = {PostA, PostB}
    /\ TxInit
    /\ CallInit

NextPosts ==
    \/ CallSavePostOfService
    \/ CallPublish
    \/ CallUnpublish
    \/ CallGetLatestUpdatedTime
    \/ Tick

SpecPosts == InitPosts /\ [][NextPosts]_vars

(***************************************************************************)
(* SpecImages: the images table and the image directory under any sequence *)
(* of calls of the image repository for two images of one file name.       *)
(***************************************************************************)
\* the images the service saves: both times are the time of the call
ServiceImages ==
    { ImageArg(f, c, clock, clock) : f \in ImagePaths, c \in Contents }

\* SaveImage of an image of the service, with any outcome of the dual write
CallSaveImageOfService ==
    /\ \E img \in ServiceImages, o \in SaveOutcomes :
          LET r == SaveImage(img, o)
          IN  /\ imageRows' = r.rows
              /\ imageFiles' = r.files
              /\ finished' = Called("SaveImage", img, o, r.err, HasImage(img.Path))
    /\ UNCHANGED <<callVars, txVars, analyzerVars, postRows, htmlFiles, clock, workers, pushes,
                   syncs, scope>>

InitImages ==
    /\ commits = << >>
    /\ order = "oldest_first"
    /\ analysis = EmptyAnalysis
    /\ StoreInit
    /\ EngineInit
    /\ scope = {ImgX, ImgSubX}
    /\ TxInit
    /\ CallInit

NextImages ==
    \/ CallSaveImageOfService
    \/ CallDeleteImage
    \/ Tick

SpecImages == InitImages /\ [][NextImages]_vars

(***************************************************************************)
(* Claims about the post repository, checked under SpecPosts.              *)
(***************************************************************************)
\* a row without the two columns that Publish and Unpublish write
OtherColumns(row) == [row EXCEPT !.published_at = NULL, !.updated_at = NULL]

\* C32: a call of Publish or of Unpublish changes nothing but published_at
\* and updated_at of the row of its ID: the other columns of that row, every
\* other row, the set of rows and every file are what they were.
C32_OnlyTwoColumns ==
    [][finished'.kind \in {"Publish", "Unpublish"}
       => (/\ DOMAIN postRows' = DOMAIN postRows
           /\ \A id \in DOMAIN postRows :
                 IF id = finished'.arg
                 THEN OtherColumns(postRows'[id]) = OtherColumns(postRows[id])
                 ELSE postRows'[id] = postRows[id]
           /\ htmlFiles' = htmlFiles
           /\ imageRows' = imageRows
           /\ imageFiles' = imageFiles)]_vars

\* Publish has written the row of one of two stored posts
C32_Witness ==
    /\ finished.kind = "Publish" /\ ~finished.err
    /\ Cardinality(DOMAIN postRows) = 2
    /\ postRows[finished.arg].published_at = clock
    /\ \E id \in DOMAIN postRows : postRows[id].published_at = NULL
    /\ Cardinality(DOMAIN htmlFiles) = 2

\* C39: a call of Publish or of Unpublish with an ID that is not empty and is
\* the id of no row, whose statement does not fail, returns no error and
\* leaves the table as it was.
C39_UnknownIDIsNoError ==
    [][(/\ finished'.kind \in {"Publish", "Unpublish"}
        /\ finished'.arg # << >>
        /\ finished'.arg \notin DOMAIN postRows
        /\ finished'.o = "ok")
       => (~finished'.err /\ postRows' = postRows)]_vars

\* Unpublish of an unknown ID has returned while another post is stored
C39_Witness ==
    /\ finished.kind = "Unpublish" /\ ~finished.err
    /\ finished.arg \notin DOMAIN postRows
    /\ postRows # EmptyMap

\* the updated_at values of the table that are not NULL
Dated == { postRows[id].updated_at : id \in DOMAIN postRows } \ {NULL}

\* C33: a call of GetLatestUpdatedTime whose query does not fail returns the
\* greatest updated_at of the rows of the table, and the zero time when no row
\* has an updated_at.
C33_LatestIsGreatest ==
    (finished.kind = "GetLatestUpdatedTime" /\ ~finished.err)
       => IF Dated = {} THEN finished.value = ZeroTime
          ELSE /\ finished.value \in Dated
               /\ \A t \in Dated : t <= finished.value

\* the call has returned the later of the two dates of two stored posts
C33_Witness ==
    /\ finished.kind = "GetLatestUpdatedTime" /\ ~finished.err
    /\ Cardinality(Dated) = 2
    /\ finished.value = MaxClock

(***************************************************************************)
(* Claims about the service, checked under Spec.                           *)
(***************************************************************************)
PostEnded == finished.kind = "post" /\ ~finished.err

\* C1 as stated: when a unit of work for a post of a branch other than the
\* main branch ends without error, the published_at of the post's row is what
\* it was before the step.  SavePost writes the zero PublishedAt of the post
\* that processPostFile builds, so a published post loses its published_at.
C1_AsStated ==
    [][(/\ finished'.kind = "post" /\ ~finished'.err
        /\ ~finished'.work.isMainBranch
        /\ finished'.work.postID \in DOMAIN postRows)
       => postRows'[finished'.work.postID].published_at
             = postRows[finished'.work.postID].published_at]_vars

\* C2 as stated: when the goroutine that unpublishes a post removed from the
\* main branch ends without error, the row of the post of that file exists with
\* a NULL published_at.  Unpublish is called with the path of the file, which is
\* the id of no row.
C2_AsStated ==
    [][(/\ finished'.kind = "unpublish" /\ ~finished'.err
        /\ ~finished'.work.sync /\ finished'.work.isMainBranch
        /\ extractPostID(finished'.work.path) \in DOMAIN postRows)
       => (/\ extractPostID(finished'.work.path) \in DOMAIN postRows'
           /\ postRows'[extractPostID(finished'.work.path)].published_at = NULL)]_vars

\* C3: the created_at of a row is the CreatedAt of the SavePost that inserted
\* the row, and no later step changes it or deletes the row.
C3_CreatedAtImmutable ==
    [][/\ \A id \in DOMAIN postRows :
             /\ id \in DOMAIN postRows'
             /\ postRows'[id].created_at = postRows[id].created_at
       /\ \A id \in DOMAIN postRows' \ DOMAIN postRows :
             \E w \in workers :
                /\ w.kind = "post" /\ w.pc = "start" /\ w.postID = id
                /\ postRows'[id].created_at = w.fileInfo.createdAt]_vars

\* a SavePost has succeeded on a row that holds another created_at than the
\* CreatedAt of the call
C3_Witness ==
    /\ PostEnded
    /\ finished.work.postID \in DOMAIN postRows
    /\ postRows[finished.work.postID].created_at # finished.work.fileInfo.createdAt

\* C4: when a unit of work for a post of the main branch has ended and no step
\* of it has failed, the row of the post has a published_at.
C4_PublishedOnMain ==
    (PostEnded /\ finished.work.isMainBranch)
       => (/\ finished.work.postID \in DOMAIN postRows
           /\ postRows[finished.work.postID].published_at # NULL)

\* a unit of work of the main branch has ended without error on a post that
\* was stored before
C4_Witness ==
    /\ PostEnded /\ finished.work.isMainBranch
    /\ finished.work.postID \in DOMAIN postRows
    /\ postRows[finished.work.postID].published_at = clock
    /\ postRows[finished.work.postID].created_at < clock

(***************************************************************************)
(* SpecPaths: isPostFile and extractPostID applied to one path, drawn from *)
(* the paths made of a directory, a run of digits, a separator, a text and *)
(* an extension.  finished holds the path, then what the two return.       *)
(***************************************************************************)
RECURSIVE Strings(_, _)
Strings(chars, n) ==
    IF n = 0 THEN { << >> }
    ELSE Strings(chars, n - 1)
         \cup { Append(t, c) : t \in { u \in Strings(chars, n - 1) : Len(u) = n - 1 },
                               c \in chars }

PathInputs ==
    { dir \o run \o sep \o text \o ext :
        dir \in { PostsDir, <<"p","o","s","t","/">>, <<"x">> \o PostsDir, << >> },
        run \in Strings({"0", "7"}, MaxDigits),
        sep \in { <<"-">>, <<"_">>, << >> },
        text \in Strings({"a", "-", "1", "\n"}, MaxText),
        ext \in { MdExt, <<".","m","d","x">>, <<".","M","D">>, MdExt \o <<"\n">>,
                  << >> } }

InitPaths ==
    /\ commits = << >>
    /\ order = "oldest_first"
    /\ analysis = EmptyAnalysis
    /\ StoreInit
    /\ workers = {} /\ pushes = 0 /\ syncs = 0
    /\ \E path \in PathInputs :
          finished = [kind |-> "path", err |-> FALSE, path |-> path]
    /\ scope = {}
    /\ TxInit
    /\ CallInit

\* the two functions are applied to the path
ClassifyPath ==
    /\ finished.kind = "path"
    /\ finished' = [kind |-> "classified", err |-> FALSE, path |-> finished.path,
                    isPostFile |-> isPostFile(finished.path),
                    postID |-> extractPostID(finished.path)]
    /\ UNCHANGED <<analyzerVars, storeVars, workers, pushes, syncs, scope, txVars,
                   callVars>>

NextPaths == ClassifyPath

SpecPaths == InitPaths /\ [][NextPaths]_vars

(***************************************************************************)
(* Claims about the path classifier, checked under SpecPaths.              *)
(***************************************************************************)
\* path is 'posts/', then d digits, then a hyphen, then a text, then '.md'
StatedShape(path, d) ==
    /\ d >= 1
    /\ Len(path) >= 6 + d + 1 + 3
    /\ SubSeq(path, 1, 6) = <<"p","o","s","t","s","/">>
    /\ \A k \in 7..(6 + d) : path[k] \in {"0","1","2","3","4","5","6","7","8","9"}
    /\ path[7 + d] = "-"
    /\ SubSeq(path, Len(path) - 2, Len(path)) = <<".","m","d">>

\* the text between the hyphen and '.md'
TextOf(path, d) == SubSeq(path, 8 + d, Len(path) - 3)

NoLineBreak(text) == \A k \in 1..Len(text) : text[k] # "\n"

\* C30 as stated: a path is a post file iff it has the stated shape, with any
\* text, and its ID is the digit run then, and empty otherwise.
C30_AsStated ==
    finished.kind = "classified" =>
        LET path == finished.path
        IN  /\ finished.isPostFile <=> \E d \in 1..Len(path) : StatedShape(path, d)
            /\ \A d \in 1..Len(path) :
                  StatedShape(path, d) => finished.postID = SubSeq(path, 7, 6 + d)
            /\ ~finished.isPostFile => finished.postID = << >>

\* C30: a path is a post file iff it is 'posts/', one or more digits 0-9, a
\* hyphen, a text without a line break and '.md'; its ID is that digit run,
\* and the ID of every other path is empty.
C30_Classifier ==
    finished.kind = "classified" =>
        LET path == finished.path
        IN  /\ finished.isPostFile <=>
                  \E d \in 1..Len(path) :
                     StatedShape(path, d) /\ NoLineBreak(TextOf(path, d))
            /\ \A d \in 1..Len(path) :
                  (StatedShape(path, d) /\ NoLineBreak(TextOf(path, d)))
                     => finished.postID = SubSeq(path, 7, 6 + d)
            /\ ~finished.isPostFile => finished.postID = << >>

\* a path of the stated shape whose text holds a line break has been classified
C30_Witness ==
    /\ finished.kind = "classified"
    /\ \E d \in 1..Len(finished.path) :
          StatedShape(finished.path, d) /\ ~NoLineBreak(TextOf(finished.path, d))
    /\ ~finished.isPostFile
    /\ finished.postID = << >>

(***************************************************************************)
(* SpecAnalyzer: analyzeCommitFiles, one commit of the list per step.      *)
(* Every reachable state holds the analysis of the list handled so far,    *)
(* so the reachable states are the results for all lists of at most        *)
(* MaxCommits commits and MaxChanges file changes that some repository can *)
(* produce, oldest first or newest first.                                  *)
(***************************************************************************)
AnalyzerInit ==
    /\ commits = << >>
    /\ order \in {"oldest_first", "newest_first"}
    /\ analysis = EmptyAnalysis

AnalyzeCommit ==
    /\ Len(commits) < MaxCommits
    /\ \E fs \in FileLists(Paths, MaxChanges - TotalChanges(commits)) :
          LET fullCommit == [sha |-> Len(commits) + 1,
                             date |-> Len(commits) + 1,
                             files |-> fs]
          IN  /\ Consistent(Chronological(Append(commits, fullCommit), order))
              /\ commits' = Append(commits, fullCommit)
              /\ analysis' = HandleFiles(fullCommit, 1, analysis)
    /\ UNCHANGED <<order, storeVars, engineVars, txVars, callVars>>

InitAnalyzer == AnalyzerInit /\ StoreInit /\ EngineInit /\ scope = Paths /\ TxInit
    /\ CallInit

NextAnalyzer == AnalyzeCommit

SpecAnalyzer == InitAnalyzer /\ [][NextAnalyzer]_vars

\* the state of the loop is the analysis of the list handled so far
AnalysisIsFold == analysis = analyzeCommitFiles(commits)

Analysed == finished.kind \in {"HandlePushEvent", "processBranch"}

\* C11: when GetCommit fails for a commit of the list of a push or of a branch,
\* the analysis returns the error and the handler starts no unit of work and
\* leaves the rows and the files as they are.
C11_FailedAnalysisAborts ==
    [][(/\ finished'.kind \in {"HandlePushEvent", "processBranch"}
        /\ finished'.failAt # 0)
       => (/\ finished'.err
           /\ workers' = workers
           /\ UNCHANGED <<postRows, htmlFiles, imageRows, imageFiles>>)]_vars

\* the second commit of a list could not be resolved after the first was
\* handled, while units of work of an earlier push were in progress
C11_Witness ==
    /\ Analysed /\ finished.failAt = 2 /\ finished.err
    /\ workers # {}

\* the unit w for an image has fetched the content that is stored for its path
SameAsStored(w) ==
    /\ w.kind = "image"
    /\ w.path \in DOMAIN imageRows
    /\ imageRows[w.path].hash = calculateHash(GetFileContents(w.path, w.commitSHA))

\* C12 as stated: a unit of work for an image that comes to the comparison of
\* the hashes with the content that is stored for its path ends there and
\* writes no row and no file.  When GetImage fails the error is dropped and
\* the unit goes on to SaveImage.
C12_AsStated ==
    [][\A w \in workers :
          (w.pc = "start" /\ SameAsStored(w) /\ w \notin workers')
             => (/\ finished'.kind = "image" /\ finished'.work = w
                 /\ UNCHANGED <<imageRows, imageFiles>>)]_vars

\* every image path of the removal set of the analysis that has just been
\* made has its unit of work
RemovalsDispatched ==
    \A f \in finished'.result.imagesToRemove :
       \E w \in workers' : w.kind = "removeImage" /\ w.path = f

\* the image whose removal has ended without error has neither row nor file
RemovedImageGone ==
    (finished'.kind = "removeImage" /\ ~finished'.err)
       => (/\ finished'.work.path \notin DOMAIN imageRows'
           /\ Base(finished'.work.path) \notin DOMAIN imageFiles')

C21_CloseWaits ==
    /\ lifecycle.close # "idle" => lifecycle.cancelled
    /\ lifecycle.close = "returned"
          => \A w \in workers : WorkKey(w) \notin lifecycle.inFlight

\* Close has returned and there were goroutines in flight when it was called
C21_Witness ==
    /\ lifecycle.close = "returned"
    /\ lifecycle.inFlight # {}
    /\ finished.kind = "Close"

C23_CloseReturns ==
    /\ lifecycle.cancelled ~> (lifecycle.close = "returned")
    /\ (lifecycle.cancelled /\ Goroutines # {}) ~> (Goroutines = {})

\* Close waits, and the last of the goroutines that were running at its call
\* has come to its end
C23_Witness ==
    /\ lifecycle.close = "waiting"
    /\ Goroutines = {}
    /\ finished.kind \in {"post", "image", "unpublish", "removeImage"}
    /\ WorkKey(finished.work) \in lifecycle.inFlight

\* C26: when HandlePushEvent returns, none of the goroutines it has spawned
\* has begun, so that what it returns is settled before any of them succeeds,
\* fails or meets the cancelled context; and it spawns none when it returns an
\* error.
C26_ReturnsBeforeWork ==
    [][finished'.kind = "HandlePushEvent"
          => /\ \A w \in workers' \ workers :
                   ~w.sync /\ w.event = pushes' + syncs' /\ NotBegun(w)
             /\ workers \subseteq workers'
             /\ finished'.err => workers' = workers
             /\ finished'.err
                   <=> (\/ finished'.failAt # 0
                        \/ finished' = Returned("HandlePushEvent",
                                                finished'.isMainBranch, NoList))]_vars

\* HandlePushEvent has returned nil and a goroutine of its push has not begun
C26_Witness ==
    /\ finished.kind = "HandlePushEvent"
    /\ ~finished.err
    /\ \E w \in Goroutines : w.event = pushes + syncs /\ NotBegun(w)

(***************************************************************************)
(* Claims about the webhook, checked under SpecWebhook.                    *)
(***************************************************************************)
\* C28 as stated: the response is no content or a server error, and a server
\* error is what a payload, signature or range failure gets.
C28_AsStated ==
    response.delivery # "none"
       => /\ response.invoked => response.verified
          /\ response.status \in {StatusNoContent, StatusInternalServerError}
          /\ response.status = StatusInternalServerError
                <=> (\/ response.delivery \in {"invalid_payload", "invalid_event"}
                     \/ response.cause = "list")

\* C28: HandlePushEvent is called for a validated payload only; a payload that
\* fails validation or parsing gets a bad request, a push whose handler
\* returns an error (no commit list, or a failed analysis) gets a server
\* error, and everything else gets no content.
C28_Responses ==
    response.delivery # "none"
       => /\ response.invoked => (response.verified /\ response.delivery = "push")
          /\ response.status = StatusBadRequest
                <=> response.delivery \in {"invalid_payload", "invalid_event"}
          /\ response.status = StatusInternalServerError
                <=> (response.invoked /\ response.cause \in {"list", "analysis"})
          /\ response.status = StatusNoContent
                <=> (\/ response.delivery = "other_event"
                     \/ response.invoked /\ response.cause = "none")

\* a payload that failed validation has been answered
C28_Witness ==
    /\ response.delivery = "invalid_payload"
    /\ ~response.verified /\ ~response.invoked
    /\ response.status = StatusBadRequest

(***************************************************************************)
(* Claims about SyncRepositoryChanges, checked under SpecSync.             *)
(***************************************************************************)
\* C24: when SyncRepositoryChanges has gone through its loop it returns no
\* error and has made a pass over every branch of the list, in the order of
\* the list, whatever the passes have come to.
C24_BranchesIndependent ==
    (catchUp.pc = "returned" /\ catchUp.passes # << >>)
       => /\ ~catchUp.err
          /\ [i \in 1..Len(catchUp.passes) |-> catchUp.passes[i].branch]
                = catchUp.branches

\* the call has returned; the pass over the first branch returned an error
\* and the pass over the second one was made
C24_Witness ==
    /\ catchUp.pc = "returned"
    /\ Len(catchUp.passes) = 2
    /\ catchUp.passes[1].err
    /\ ~catchUp.passes[2].err

\* C25: when GetLatestUpdatedTime or ListBranches fails, SyncRepositoryChanges
\* returns an error, makes no pass over any branch, and neither the rows nor
\* the files nor the units of work change.
C25_AbortsAtStart ==
    [][(catchUp'.highWater # "ok" \/ catchUp'.listed # "ok")
          => /\ catchUp'.pc = "returned"
             /\ catchUp'.err
             /\ catchUp'.passes = << >>
             /\ UNCHANGED <<postRows, htmlFiles, imageRows, imageFiles, workers,
                            syncs>>]_vars

\* the call has returned the error of ListBranches
C25_Witness ==
    /\ catchUp.pc = "returned"
    /\ catchUp.highWater = "ok"
    /\ catchUp.listed = "fail"
    /\ finished = [kind |-> "SyncRepositoryChanges", err |-> TRUE]

\* C27 as stated: when a unit of work ends with an error, every other unit of
\* its batch is still there to be processed.
C27_AsStated ==
    [][\A w \in workers :
          (/\ finished'.kind \in {"unpublish", "removeImage", "post", "image"}
           /\ finished'.err
           /\ finished'.work = w)
             => \A v \in workers \ {w} :
                   \E u \in workers' : WorkKey(u) = WorkKey(v)]_vars

\* a unit of a catch-up pass has begun and has not ended
InProgress(w) == w.sync /\ ~NotBegun(w)

\* C29: the units of work of a catch-up sync are those of one branch, at most
\* one of them has begun and not ended, and none is left when the call returns.
C29_Serial ==
    /\ \A v, w \in workers : (v.sync /\ w.sync) => v.event = w.event
    /\ Cardinality({ w \in workers : InProgress(w) }) <= 1
    /\ catchUp.pc = "returned" => \A w \in workers : ~w.sync

\* a pass has two posts to process; one is in progress and the other waits
C29_Witness ==
    /\ catchUp.pc = "loop"
    /\ \E v, w \in workers :
          /\ v.sync /\ w.sync /\ v # w
          /\ v.kind = "post" /\ w.kind = "post"
          /\ InProgress(v) /\ NotBegun(w)

(***************************************************************************)
(* Claims about the goroutines of one push, checked under SpecBatch.       *)
(***************************************************************************)
\* the row and the file of a post hold the content that the unit w has fetched
StoredBy(w, rows, files) ==
    LET result == Render(GetFileContents(w.fileInfo.path, w.commitSHA))
    IN  /\ w.postID \in DOMAIN rows
        /\ rows[w.postID].title = result.Title
        /\ rows[w.postID].snippet = result.Snippet
        /\ HTMLPathOf(w.postID) \in DOMAIN files
        /\ files[HTMLPathOf(w.postID)] = result.HTMLContent

\* the posts other than id have the rows and the files of before the step
OthersUntouched(id) ==
    /\ \A other \in DOMAIN postRows \ {id} :
          other \in DOMAIN postRows' /\ postRows'[other] = postRows[other]
    /\ \A name \in DOMAIN htmlFiles \ {HTMLPathOf(id)} :
          name \in DOMAIN htmlFiles' /\ htmlFiles'[name] = htmlFiles[name]
    /\ DOMAIN postRows' \subseteq DOMAIN postRows \cup {id}
    /\ DOMAIN htmlFiles' \subseteq DOMAIN htmlFiles \cup {HTMLPathOf(id)}

\* C20: in every interleaving of the goroutines of a push, a step of the unit
\* of work of a post leaves the rows and the files of the other posts as they
\* are, and a unit that ends without error leaves the one row and the file of
\* its post with the content of its own file; so that when all have ended
\* without error every post of the push has its row and its content.
C20_IndependentPosts ==
    [][/\ \A w \in workers :
             (w.kind = "post" /\ w \notin workers') => OthersUntouched(w.postID)
       /\ (finished'.kind = "post" /\ ~finished'.err)
             => StoredBy(finished'.work, postRows', htmlFiles')
       /\ (/\ finished'.kind = "post" /\ ~finished'.err /\ workers' = {}
           /\ \A id \in PostIDs : id \in DOMAIN postRows')
             => \A id \in PostIDs :
                   /\ extractPostID(postRows'[id].title[1]) = id
                   /\ htmlFiles'[HTMLPathOf(id)] = postRows'[id].title]_vars

\* the two goroutines of a push of two posts have ended and each post has its
\* row and its file, the one that ended first as well
C20_Witness ==
    /\ workers = {}
    /\ finished.kind = "post" /\ ~finished.err
    /\ \A f \in scope :
          /\ extractPostID(f) \in DOMAIN postRows
          /\ postRows[extractPostID(f)].title[1] = f
          /\ HTMLPathOf(extractPostID(f)) \in DOMAIN htmlFiles
          /\ htmlFiles[HTMLPathOf(extractPostID(f))] = postRows[extractPostID(f)].title
    /\ Cardinality(DOMAIN postRows) = 2

(***************************************************************************)
(* Claims about the content store, checked under SpecStore.                *)
(***************************************************************************)
\* the lookup of key finds in the table after the step what it found before it:
\* the same row, or no row
SameLookup(before, after, key) ==
    /\ (key \in DOMAIN after) <=> (key \in DOMAIN before)
    /\ key \in DOMAIN before => after[key] = before[key]

FileWriteFailed == finished'.o \in {"mkdir_fail", "write_fail", "write_partial"}

\* C14: a SavePost or a SaveImage whose file cannot be written returns an
\* error, and the lookup of its ID or path gives after the call what it gave
\* before: the row of before, or not found.
C14_RolledBack ==
    [][/\ (finished'.kind = "SavePost" /\ FileWriteFailed)
          => (/\ finished'.err
              /\ SameLookup(postRows, postRows', finished'.arg.ID))
       /\ (finished'.kind = "SaveImage" /\ FileWriteFailed)
          => (/\ finished'.err
              /\ SameLookup(imageRows, imageRows', finished'.arg.Path))]_vars

\* the file of an update of a stored post was written in part: the statement
\* had changed the row and the row is as before
C14_Witness ==
    /\ finished.kind = "SavePost" /\ finished.o = "write_partial" /\ finished.err
    /\ finished.arg.ID \in DOMAIN postRows
    /\ finished.arg.CreatedAt # ZeroTime
    /\ postRows[finished.arg.ID].title # finished.arg.Title

\* C15 as stated: a SavePost or a SaveImage that returns an error leaves the
\* rows and the files as they were, and one that returns no error leaves the
\* row and the file of its argument.  When the commit fails, or the write
\* breaks off, the file is already the new one or a part of it.
C15_AsStated ==
    [][/\ finished'.kind = "SavePost"
          => IF finished'.err
             THEN UNCHANGED <<postRows, htmlFiles>>
             ELSE /\ finished'.arg.ID \in DOMAIN postRows'
                  /\ postRows'[finished'.arg.ID].title = finished'.arg.Title
                  /\ finished'.arg.HTMLPath \in DOMAIN htmlFiles'
                  /\ htmlFiles'[finished'.arg.HTMLPath] = finished'.arg.HTMLContent
       /\ finished'.kind = "SaveImage"
          => IF finished'.err
             THEN UNCHANGED <<imageRows, imageFiles>>
             ELSE /\ finished'.arg.Path \in DOMAIN imageRows'
                  /\ imageRows'[finished'.arg.Path].hash = finished'.arg.Hash
                  /\ Base(finished'.arg.Path) \in DOMAIN imageFiles'
                  /\ imageFiles'[Base(finished'.arg.Path)] = finished'.arg.Content]_vars

\* C16: a DeleteImage of a path whose statement, file removal and commit meet
\* no failure returns no error and leaves neither the row nor the file of the
\* path, whether or not there was a row and whether or not there was a file;
\* a second call changes nothing.
C16_DeleteIdempotent ==
    [][(/\ finished'.kind = "DeleteImage" /\ finished'.o = "ok"
        /\ finished'.arg # << >>)
       => (/\ ~finished'.err
           /\ finished'.arg \notin DOMAIN imageRows'
           /\ Base(finished'.arg) \notin DOMAIN imageFiles'
           /\ (~finished'.before.row /\ ~finished'.before.file)
                 => UNCHANGED <<imageRows, imageFiles>>)]_vars

\* a DeleteImage has succeeded for a path that had a row and no file
C16_Witness ==
    /\ finished.kind = "DeleteImage" /\ ~finished.err
    /\ finished.before.row /\ ~finished.before.file

\* a Publish or an Unpublish of a stored post has returned no error
Toggled(op) ==
    finished'.kind = op /\ ~finished'.err /\ finished'.before.row

C17_NestedReuses ==
    /\ \A i \in 2..Len(txn.stack) :
          ~txn.stack[i].owner /\ txn.stack[i].tx = txn.stack[1].tx
    /\ \A t \in 1..Len(txn.txs) :
          txn.txs[t].begunAt = 1 /\ txn.txs[t].endedAt \in {0, 1}

\* a write made by the function of a nested call was committed, by the
\* outermost call
C17_Witness ==
    /\ txn.stack = << >>
    /\ \E w \in txn.table : w.depth = 2

\* C18: when the function of the outermost call returns the error that a
\* nested call has returned to it, the outermost call returns an error, the
\* transaction is rolled back and nothing is added to the committed writes.
C18_NestedRollback ==
    [][(/\ Len(txn.stack) = 1 /\ txn'.stack = << >>
        /\ txn'.returned.childErr /\ txn'.returned.fnErr)
       => (/\ txn'.returned.err
           /\ txn'.table = txn.table
           /\ \A t \in 1..Len(txn'.txs) : txn'.txs[t].state # "open"
           /\ txn'.txs[txn.stack[1].tx].state = "rolledback")]_vars

\* the outermost call has returned the error of a nested call after both
\* functions had written
C18_Witness ==
    /\ txn.stack = << >>
    /\ txn.returned.depth = 1 /\ txn.returned.childErr /\ txn.returned.fnErr
    /\ \E t \in 1..Len(txn.txs) :
          /\ txn.txs[t].state = "rolledback"
          /\ \E w1, w2 \in txn.txs[t].writes : w1.depth = 1 /\ w2.depth = 2

(***************************************************************************)
(* Claims about the analyzer (SpecAnalyzer).                               *)
(***************************************************************************)
FilesOf(i) == { commits[i].files[k] : k \in 1..Len(commits[i].files) }

AllFileRefs ==
    { ik \in (1..Len(commits)) \X (1..MaxChanges + 1) :
         ik[2] <= Len(commits[ik[1]].files) }

\* no commit of the list after the i-th touches a path of P
NotTouchedAfter(i, P) ==
    \A j \in (i + 1)..Len(commits) : CommitTouched(commits[j]) \cap P = {}

\* the analysis just before the k-th file of the i-th commit is handled
StateBefore(i, k) ==
    HandleFiles([commits[i] EXCEPT !.files = SubSeq(@, 1, k - 1)], 1,
                analyzeCommitFiles(SubSeq(commits, 1, i - 1)))

AddThenRemove(p) ==
    /\ Len(commits) = 2
    /\ [filename |-> p, status |-> "added", previous_filename |-> NoPath]
          \in FilesOf(1)
    /\ [filename |-> p, status |-> "removed", previous_filename |-> NoPath]
          \in FilesOf(2)

\* C5 as stated: for a list of two commits whose first adds a post path and
\* whose second removes it, the path ends in the removal set and not in the
\* to-process map.
C5_AsStated ==
    \A p \in Paths :
        (isPostFile(p) /\ AddThenRemove(p)) =>
            (p \in analysis.postsToRemove /\ p \notin DOMAIN analysis.posts)

\* C5 amended: for a list of two commits whose first adds a post path and
\* whose second removes it, the path ends neither in the to-process map nor
\* in the removal set: the removal cancels the pending addition.
C5_AddThenRemoveCancels ==
    \A p \in Paths :
        (isPostFile(p) /\ AddThenRemove(p)) =>
            (p \notin analysis.postsToRemove /\ p \notin DOMAIN analysis.posts)

C5_Witness ==
    /\ isPostFile(PostA) /\ AddThenRemove(PostA)
    /\ PostA \notin DOMAIN analysis.posts

\* the renames of the list from one path of a kind to another of that kind
\* that no later commit of the list touches again
FinalRenames(isKind(_)) ==
    { ik \in AllFileRefs :
         LET f == commits[ik[1]].files[ik[2]]
         IN  /\ f.status = "renamed"
             /\ isKind(f.filename) /\ isKind(f.previous_filename)
             /\ NotTouchedAfter(ik[1], {f.filename, f.previous_filename}) }

C7_AsStated ==
    \A ik \in FinalRenames(isImageFile) :
        LET f == commits[ik[1]].files[ik[2]]
        IN  /\ f.filename \in DOMAIN analysis.images
            /\ f.previous_filename \notin analysis.imagesToRemove

\* C7 amended: after such a rename the new path is in the image to-process
\* map and it is the new path, not the previous one, that is cleared from the
\* image removal set; the previous path leaves the to-process map and is in
\* the removal set unless it was pending in the to-process map (and not
\* already marked for removal) when the rename was handled.
C7_ImageRename ==
    \A ik \in FinalRenames(isImageFile) :
        LET f == commits[ik[1]].files[ik[2]]
            before == StateBefore(ik[1], ik[2])
        IN  /\ f.filename \in DOMAIN analysis.images
            /\ f.filename \notin analysis.imagesToRemove
            /\ f.previous_filename \notin DOMAIN analysis.images
            /\ (f.previous_filename \in analysis.imagesToRemove) <=>
                  (\/ f.previous_filename \in before.imagesToRemove
                   \/ f.previous_filename \notin DOMAIN before.images)

C7_Witness ==
    /\ FinalRenames(isImageFile) # {}
    /\ ImgY \in DOMAIN analysis.images
    /\ ImgX \in analysis.imagesToRemove

\* C8 as stated: after the analysis of any list no path is both in the
\* to-process map and in the removal set of its kind.
C8_AsStated ==
    /\ DOMAIN analysis.posts \cap analysis.postsToRemove = {}
    /\ DOMAIN analysis.images \cap analysis.imagesToRemove = {}

Perms(n) ==
    { f \in [1..n -> 1..n] : \A i, j \in 1..n : i # j => f[i] # f[j] }

Permute(cs, f) == [i \in 1..Len(cs) |-> cs[f[i]]]

\* the paths to process and the paths to remove, per kind
ResultSets(a) ==
    <<DOMAIN a.posts, DOMAIN a.images, a.postsToRemove, a.imagesToRemove>>

\* C9 as stated: the sets of paths to process and to remove are the same for
\* every ordering of the commits of the list.
C9_AsStated ==
    \A f \in Perms(Len(commits)) :
        ResultSets(analyzeCommitFiles(Permute(commits, f))) = ResultSets(analysis)

NoPathTouchedTwice ==
    \A i, j \in 1..Len(commits) :
        i < j => CommitTouched(commits[i]) \cap CommitTouched(commits[j]) = {}

\* C9 amended: the sets of paths to process and to remove are the same for
\* every ordering of the commits of a list in which no path is touched by
\* more than one commit.
C9_OrderFreeWhenDisjoint ==
    NoPathTouchedTwice =>
        \A f \in Perms(Len(commits)) :
            ResultSets(analyzeCommitFiles(Permute(commits, f)))
                = ResultSets(analysis)

C9_Witness ==
    /\ Len(commits) = 2
    /\ NoPathTouchedTwice
    /\ analysis.postsToRemove # {}
    /\ DOMAIN analysis.posts # {}

\* position in history of the commit at position pos of the list
ChronIndex(pos) ==
    IF order = "oldest_first" THEN pos ELSE Len(commits) + 1 - pos

\* the version of path p after the k-th commit of the history: {j} when the
\* j-th commit wrote it last, {0} when the list has not touched it yet,
\* {} when the file is absent
RECURSIVE FileVersionAt(_, _)
FileVersionAt(p, k) ==
    IF k = 0 THEN {0}
    ELSE LET c == Chronological(commits, order)[k]
             fs == { c.files[i] : i \in 1..Len(c.files) }
         IN  IF \E f \in fs : f.filename = p /\ f.status # "removed"
             THEN {k}
             ELSE IF \E f \in fs : \/ (f.filename = p /\ f.status = "removed")
                                  \/ (f.previous_filename = p /\ f.status = "renamed")
                  THEN {}
                  ELSE FileVersionAt(p, k - 1)

RepresentativeIsFinal(m) ==
    \A p \in DOMAIN m :
        /\ FileVersionAt(p, Len(commits)) # {}
        /\ FileVersionAt(p, ChronIndex(m[p].sha)) = FileVersionAt(p, Len(commits))

\* C10 as stated: for every path left in a to-process map the representative
\* commit is one at which the file exists with its final content in the list.
C10_AsStated ==
    /\ RepresentativeIsFinal(analysis.posts)
    /\ RepresentativeIsFinal(analysis.images)

\* C40 as stated: no step of the service lowers what GetLatestUpdatedTime
\* returns.  SavePost writes the date of the commit into updated_at, also over
\* the later time that Publish has written.
C40_AsStated ==
    [][GetLatestUpdatedTime("ok")'.time >= GetLatestUpdatedTime("ok").time]_vars

\* C31 as stated: a unit of work for a post takes the date of the commit as
\* the createdAt of the post only when the lookup has found no row; for a post
\* that is stored the unit carries the created_at of the row.  GetPost returns
\* a plain error for a missing row and for a failed query alike, and the
\* handlers take every error for a missing row.
C31_AsStated ==
    [][\A w \in workers' \ workers :
          (w.kind = "post" /\ w.pc = "start" /\ w.postID \in DOMAIN postRows)
             => w.fileInfo.createdAt
                   = ToDomainTime(postRows[w.postID].created_at)]_vars

\* C34 as stated: no call of Unpublish is made for a post file removed on
\* another branch than the main branch.  processBranch calls Unpublish for
\* every path of postsToRemove whatever the branch is.
C34_AsStated ==
    finished.kind = "unpublish" => finished.work.isMainBranch

\* C35 as stated: the step in which a unit of work for a modified post of the
\* main branch saves the post leaves the published_at of a published post
\* other than NULL.  SavePost writes the zero PublishedAt of the post that
\* processPostFile builds, and Publish is a later call that can fail.
C35_AsStated ==
    [][\A w \in workers :
          (/\ w.kind = "post" /\ w.isMainBranch /\ w.pc = "start"
           /\ w \notin workers'
           /\ w.postID \in DOMAIN postRows
           /\ postRows[w.postID].published_at # NULL)
          => postRows'[w.postID].published_at # NULL]_vars

\* C36 as stated: when Close has returned no goroutine of the service is
\* running.  HandlePushEvent looks neither at the context nor at the group
\* before s.wg.Go, so a push handled after s.wg.Wait() has returned starts
\* goroutines that nothing waits for.
C36_AsStated ==
    lifecycle.close = "returned" => Goroutines = {}

\* the image path of a call of SaveImage or of DeleteImage
PathOfCall(call) == IF call.kind = "SaveImage" THEN call.arg.Path ELSE call.arg

\* the file of the image directory that holds the image of a path, if any
FileOf(files, path) ==
    IF Base(path) \in DOMAIN files THEN {files[Base(path)]} ELSE {}

\* C37 as stated: a call of SaveImage or of DeleteImage for one image leaves
\* the file of every other stored image as it was.  The file of an image is
\* named by the last element of its path, so images/x.png and images/d/x.png
\* have one file.
C37_AsStated ==
    [][finished'.kind \in {"SaveImage", "DeleteImage"}
       => \A g \in DOMAIN imageRows \ {PathOfCall(finished')} :
             FileOf(imageFiles', g) = FileOf(imageFiles, g)]_vars

\* C38 as stated: the goroutines of one push that work on posts have
\* different post IDs.  The posts of the analysis are keyed by path, and
\* HandlePushEvent starts one goroutine for each path.
C38_AsStated ==
    \A w, v \in workers :
        (/\ w.kind = "post" /\ v.kind = "post"
         /\ w.event = v.event /\ w.postID = v.postID)
        => w.path = v.path

====
